---- MODULE Spec2Model ----
(***************************************************************************)
(* Model of the Outlook add-in "download-email-eml".  The repository holds *)
(* several revisions of the same task-pane script; the revision that is    *)
(* loaded in the pane is the variable `variant`, fixed at page load:       *)
(*   "taskpane"  src/taskpane.js (both copies in the file behave alike)    *)
(*   "part_000"  src/unnamed/part_000   (isInitialized flag)               *)
(*   "part_001"  src/unnamed/part_001   (lazy msalInstance)                *)
(*   "part_003"  src/unnamed/part_003   (auto-start, auto-close)           *)
(*   "part_004"  src/unnamed/part_004   (status-code messages)             *)
(*   "docsA"     src/docs/taskpane.js 1-315   (guarded, encoding trial)    *)
(*   "docsB"     src/docs/taskpane.js 316-890 (guarded, three strategies)  *)
(*   "part_002"  src/unnamed/part_002   (guarded, encodings + search)      *)
(*   "part_005"  src/unnamed/part_005   (guarded, three strategies, logs)  *)
(* Every call of downloadEmailAsEml runs in an activation slot; an await   *)
(* is a value of pc[slot], and each action resumes one suspended call (or  *)
(* fires one event) and runs the code up to the next await.                *)
(***************************************************************************)
EXTENDS Integers, Sequences, FiniteSets, TLC

\* Number of activation slots: calls of downloadEmailAsEml that can be
\* suspended, or hold a pending cleanup timer, at the same time.
MaxAttempts == 2

\* Cap of the counter of successful initialize() completions.
MaxInitOk == 2

Slots == 1..MaxAttempts

Variants == {"taskpane", "part_000", "part_001", "part_003", "part_004",
             "docsA", "docsB", "part_002", "part_005"}

\* Revisions with the isDownloading guard.
Guarded == {"docsA", "docsB", "part_002", "part_005"}
\* Revisions whose downloadEmailWithRetry tries three request shapes.
ThreeStrategy == {"docsB", "part_005"}
\* Revisions whose downloadEmailWithRetry tries four identifier encodings.
EncodingTrial == {"docsA", "part_002"}
\* Revisions that issue one fetch inside downloadEmailAsEml.
SingleFetch == {"taskpane", "part_000", "part_001", "part_003", "part_004"}
\* Revisions that construct the MSAL client at script load.
ConstInstance == {"taskpane", "part_000"}

\* Office.context.mailbox.item.itemId as the host supplies it: missing,
\* a Latin-1 string, or a string btoa() rejects.
ItemIds == {"", "id", "nonLatin1"}
\* btoa() is called in the encoding trial only: elsewhere the two non-empty
\* identifiers are one case.
\* The id of the metadata Method 2 reads: the itemId the host gave, or the
\* form the service keeps the message under.
MetadataIds == {"id", "idRest"}

ItemIdsOf(v) == IF v \in {"docsA", "part_002"} THEN ItemIds ELSE {"", "id"}

VARIABLES
  variant,        \* the revision loaded in the pane
  hostPc,         \* page life cycle: loading, dom, ready, ...
  autoTimer,      \* the auto-start setTimeout of Office.onReady is pending
  domTimer,       \* part_004: the 3 s fallback timer of DOMContentLoaded is pending
  pane,           \* open, closing (auto-close timer pending), closed
  msalInstance,   \* 0 = null, else the id of the client object
  instState,      \* per client object: none, new, initializing, ready, failed
  isInitialized,  \* part_000's flag
  hasAccount,     \* the provider's cache holds an account
  initOk,         \* number of initialize() calls that completed successfully
  isDownloading,  \* the in-progress guard flag
  btnDisabled,    \* downloadBtn.disabled
  btnOnclick,     \* downloadBtn.onclick: none, download, close, removed
  statusClass,    \* what the status area shows: initial, progress, success, error
  pc,             \* per slot: the await the call is suspended at, idle, done
  log,            \* per slot: the external calls the current call has made, in order
  outcome,        \* per slot: how the call ended
  tok,            \* per slot: the access token getToken returned
  item,           \* per slot: the itemId read from the host
  uninit,         \* per slot: a token operation was invoked on a client not (yet) initialized
  idx,            \* per slot: loop index of the encoding trial
  details,        \* per slot: errorDetails of the encoding trial
  console,        \* per slot: console.log lines of downloadEmailWithRetry
  payload,        \* per slot: what downloadEmailWithRetry returned
  urls,           \* per slot: the object URLs created, each live or revoked
  saved,          \* per slot: a save was handed to the browser (click / window.open)
  link,           \* per slot: where the manual download link is: none, body, status, removed
  named,          \* per slot: the name the save goes by: none, filename (download = filename), unnamed
  bearer,         \* per slot: the bearer credentials the requests of the call carried
  method2,        \* per slot: <<metadata.id, the identifier in the URL of Method 2's MIME request>>
  revokeTimer,    \* per slot: 0, or the index in urls the pending cleanup timer revokes
  errEntries,     \* per slot: the diagnostic entries in the message of the error the fetcher threw
  stage,          \* a function of the script run on its own: off, in (argument chosen), out (applied)
  input,          \* its argument
  output          \* its result

pageVars == <<variant, hostPc, autoTimer, domTimer, pane, msalInstance, instState,
          isInitialized, hasAccount, initOk, isDownloading, btnDisabled,
          btnOnclick, statusClass, pc, log, outcome, tok, item, uninit, idx,
          details, console, payload, urls, saved, link, named, bearer,
          method2, revokeTimer,
          errEntries>>

vars == <<pageVars, stage, input, output>>

\* The state as one record, so that the synchronous part of a handler is a
\* composition of functions from state to state.
Cur ==
  [variant |-> variant, hostPc |-> hostPc, autoTimer |-> autoTimer,
   domTimer |-> domTimer, pane |-> pane, msalInstance |-> msalInstance,
   instState |-> instState, isInitialized |-> isInitialized,
   hasAccount |-> hasAccount, initOk |-> initOk,
   isDownloading |-> isDownloading, btnDisabled |-> btnDisabled,
   btnOnclick |-> btnOnclick, statusClass |-> statusClass, pc |-> pc,
   log |-> log, outcome |-> outcome, tok |-> tok, item |-> item,
   uninit |-> uninit, idx |-> idx, details |-> details, console |-> console,
   payload |-> payload, urls |-> urls, saved |-> saved, link |-> link,
   named |-> named, bearer |-> bearer, method2 |-> method2,
   revokeTimer |-> revokeTimer, errEntries |-> errEntries]

\* The handler's result is evaluated once and bound to r.
ApplyPage(s) ==
  \E r \in {s} :
    /\ variant' = r.variant
    /\ hostPc' = r.hostPc
    /\ autoTimer' = r.autoTimer
    /\ domTimer' = r.domTimer
    /\ pane' = r.pane
    /\ msalInstance' = r.msalInstance
    /\ instState' = r.instState
    /\ isInitialized' = r.isInitialized
    /\ hasAccount' = r.hasAccount
    /\ initOk' = r.initOk
    /\ isDownloading' = r.isDownloading
    /\ btnDisabled' = r.btnDisabled
    /\ btnOnclick' = r.btnOnclick
    /\ statusClass' = r.statusClass
    /\ pc' = r.pc
    /\ log' = r.log
    /\ outcome' = r.outcome
    /\ tok' = r.tok
    /\ item' = r.item
    /\ uninit' = r.uninit
    /\ idx' = r.idx
    /\ details' = r.details
    /\ console' = r.console
    /\ payload' = r.payload
    /\ urls' = r.urls
    /\ saved' = r.saved
    /\ link' = r.link
    /\ named' = r.named
    /\ bearer' = r.bearer
    /\ method2' = r.method2
    /\ revokeTimer' = r.revokeTimer
    /\ errEntries' = r.errEntries

Apply(s) == ApplyPage(s) /\ UNCHANGED <<stage, input, output>>

\* The page as it is when the script has been loaded.
PageInit ==
  /\ variant \in Variants
  /\ hostPc = "loading"
  /\ autoTimer = FALSE
  /\ domTimer = FALSE
  /\ pane = "open"
     \* `const msalInstance = new msal.PublicClientApplication(msalConfig)` at
     \* load, against `let msalInstance = null`
  /\ msalInstance = IF variant \in ConstInstance THEN 1 ELSE 0
  /\ instState = [i \in Slots |->
                    IF variant \in ConstInstance /\ i = 1 THEN "new" ELSE "none"]
  /\ isInitialized = FALSE
  /\ hasAccount \in BOOLEAN
  /\ initOk = 0
  /\ isDownloading = FALSE
  /\ btnDisabled = FALSE
  /\ btnOnclick = "none"
  /\ statusClass = "initial"
  /\ pc = [p \in Slots |-> "idle"]
  /\ log = [p \in Slots |-> <<>>]
  /\ outcome = [p \in Slots |-> ""]
  /\ tok = [p \in Slots |-> ""]
  /\ item = [p \in Slots |-> ""]
  /\ uninit = [p \in Slots |-> FALSE]
  /\ idx = [p \in Slots |-> 0]
  /\ details = [p \in Slots |-> <<>>]
  /\ console = [p \in Slots |-> <<>>]
  /\ payload = [p \in Slots |-> ""]
  /\ urls = [p \in Slots |-> <<>>]
  /\ saved = [p \in Slots |-> FALSE]
  /\ link = [p \in Slots |-> "none"]
  /\ named = [p \in Slots |-> "none"]
  /\ bearer = [p \in Slots |-> {}]
  /\ method2 = [p \in Slots |-> <<>>]
  /\ revokeTimer = [p \in Slots |-> 0]
  /\ errEntries = [p \in Slots |-> <<>>]

Init ==
  /\ PageInit
  /\ stage = "off" /\ input = <<>> /\ output = <<>>

----------------------------------------------------------------------------
\* Small state transformers.

Goto(s, p, l) == [s EXCEPT !.pc[p] = l]
\* The log of a call: what it asked of the outside (res "call") and how each
\* provider call, request and body read settled (the encoding trial keeps its
\* own record of that, errorDetails).
Call(s, p, e) == [s EXCEPT !.log[p] = Append(@, [op |-> e, res |-> "call"])]
Ret(s, p, e, o) == [s EXCEPT !.log[p] = Append(@, [op |-> e, res |-> o])]
\* A faulty Fetch that sends the request without the Authorization header.
FetchAnonymous(s, p, e) == [Call(s, p, e) EXCEPT !.bearer[p] = @ \cup {""}]

\* fetch(url, {headers: {"Authorization": `Bearer ${accessToken}`, ...}})
Fetch(s, p, e) == [Call(s, p, e) EXCEPT !.bearer[p] = @ \cup {s.tok[p]}]

ConsoleLog(s, p, e) == [s EXCEPT !.console[p] = Append(@, e)]

\* A slot is free when no call is suspended in it and no timer of it is pending.
Free(s, p) == s.pc[p] \in {"idle", "done"} /\ s.revokeTimer[p] = 0
HasFree(s) == \E p \in Slots : Free(s, p)
FreeSlot(s) == CHOOSE p \in Slots : Free(s, p) /\ \A q \in Slots : Free(s, q) => p <= q

\* The model remembers the locals of a call that has returned (pc "done")
\* in the state it returned in; the next event of the page releases the slot.
\* Its object URLs stay in sight while their cleanup timer is pending, and in
\* the state the timer fired in.
Forget(s, q) ==
  LET s1 == [s EXCEPT !.pc[q] = "idle", !.log[q] = <<>>, !.outcome[q] = "",
                      !.tok[q] = "", !.item[q] = "", !.uninit[q] = FALSE,
                      !.idx[q] = 0, !.details[q] = <<>>, !.console[q] = <<>>,
                      !.payload[q] = "", !.errEntries[q] = <<>>,
                      !.bearer[q] = {}, !.method2[q] = <<>>]
  IN IF s.revokeTimer[q] = 0
       THEN [s1 EXCEPT !.urls[q] = <<>>, !.saved[q] = FALSE, !.link[q] = "none",
                       !.named[q] = "none"]
       ELSE s1

RECURSIVE ForgetAll(_, _)
ForgetAll(s, qs) ==
  IF qs = {} THEN s
  ELSE LET q == CHOOSE x \in qs : TRUE
       IN ForgetAll(Forget(s, q), qs \ {q})

\* The current state, the returned calls released: what every event starts from.
Now == ForgetAll(Cur, {q \in Slots : pc[q] \in {"idle", "done"}})

\* The client object slot p's initializeMsal works on.
InstOf(s, p) == IF s.variant \in ConstInstance THEN 1 ELSE p

\* A token operation on the current client: remember when that client's
\* initialize() has not completed successfully.
TokenOp(s, p, e) ==
  [Call(s, p, e) EXCEPT !.uninit[p] = @ \/ s.instState[s.msalInstance] # "ready"]

----------------------------------------------------------------------------
\* The end of downloadEmailAsEml.

\* A faulty Catch that leaves isDownloading as it is.
CatchKeepsFlag(s, p, kind) ==
  LET s1 == [s EXCEPT !.pc[p] = "done", !.outcome[p] = kind,
                      !.statusClass = "error"]
  IN IF s.variant \in Guarded
       THEN [s1 EXCEPT !.btnDisabled = FALSE,
                       !.btnOnclick = IF s.variant \in {"docsB", "part_005"}
                                        THEN "download" ELSE @]
       ELSE s1

\* The catch block of downloadEmailAsEml and the statement after it.
Catch(s, p, kind) ==
  LET s1 == [s EXCEPT !.pc[p] = "done", !.outcome[p] = kind,
                      !.statusClass = "error"]
  IN IF s.variant \in Guarded
       THEN [s1 EXCEPT !.btnDisabled = FALSE,
                       !.btnOnclick = IF s.variant \in {"docsB", "part_005"}
                                        THEN "download" ELSE @,
                       !.isDownloading = FALSE]
       ELSE s1

\* A faulty Succeed that leaves the button disabled.
SucceedDisabled(s, p) ==
  [s EXCEPT !.pc[p] = "done", !.outcome[p] = "ok", !.statusClass = "success",
            !.isDownloading = FALSE]

\* The statements of the try block after the save was handed over, and the
\* statement after the try.
Succeed(s, p) ==
  LET s1 == [s EXCEPT !.pc[p] = "done", !.outcome[p] = "ok",
                      !.statusClass = "success",
                      \* statusDiv.textContent = ... drops a link put there
                      !.link[p] = IF @ = "status" /\ s.variant \in Guarded
                                    THEN "removed" ELSE @]
  IN CASE s.variant \in {"docsA", "part_002"} ->
            [s1 EXCEPT !.btnDisabled = FALSE, !.isDownloading = FALSE]
       [] s.variant = "part_005" ->
            [s1 EXCEPT !.btnDisabled = FALSE, !.btnOnclick = "download",
                       !.isDownloading = FALSE]
       [] s.variant = "docsB" ->
            [s1 EXCEPT !.btnDisabled = FALSE, !.btnOnclick = "close",
                       !.isDownloading = FALSE]
       [] s.variant \in {"part_003", "part_004"} ->
            \* setTimeout(() => Office.context.ui.closeContainer(), ...)
            [s1 EXCEPT !.pane = "closing"]
       [] OTHER -> s1

\* What the browser does with the save: "ok" it starts, "blocked" window.open
\* returns null, "throws" the call that hands the URL over raises.
DeliveryOutcomes(v) ==
  IF v \in {"docsA", "part_005"} THEN {"ok", "blocked", "throws"}
                                 ELSE {"ok", "throws"}

\* triggerDownload with window.open.
triggerDownloadOpen(s, p, d) ==
  LET s1 == Call([s EXCEPT !.urls[p] = Append(@, "live")], p, "createObjectURL")
  IN CASE d = "ok" ->
            \* window.open(url, '_blank'): filename is not used
            Succeed([Call(s1, p, "open") EXCEPT !.saved[p] = TRUE,
                                                !.named[p] = "unnamed",
                                                !.revokeTimer[p] = 1], p)
       [] d = "blocked" ->
            \* link.download = filename
            Succeed([Call(s1, p, "open") EXCEPT !.link[p] = "status",
                                                !.named[p] = "filename",
                                                !.revokeTimer[p] = 1], p)
       [] OTHER -> Catch(Call(s1, p, "open"), p, "DeliveryError")

\* triggerDownload with a hidden link that is clicked.
triggerDownloadClick(s, p, d) ==
  LET s1 == Call([s EXCEPT !.urls[p] = Append(@, "live"), !.link[p] = "body",
                           !.named[p] = "filename"],
                 p, "createObjectURL")
  IN IF d = "ok"
       THEN Succeed([Call(s1, p, "click") EXCEPT !.saved[p] = TRUE,
                                                 !.revokeTimer[p] = 1], p)
       ELSE \* catch: the link is shown in the status area
            Succeed([Call(s1, p, "click") EXCEPT !.link[p] = "status",
                                                 !.revokeTimer[p] = 1], p)

\* The delivery written out in docsB's downloadEmailAsEml.
deliverDocsB(s, p, d) ==
  LET s1 == Call([s EXCEPT !.urls[p] = Append(@, "live"),
                           !.named[p] = "filename"],
                 p, "createObjectURL")
  IN IF d = "ok"
       THEN Succeed([Call(s1, p, "click") EXCEPT !.saved[p] = TRUE,
                                                 !.revokeTimer[p] = 1], p)
       ELSE \* catch (downloadError): a second URL, shown as a link; return
            LET s2 == Call([Call(s1, p, "click") EXCEPT !.urls[p] = Append(@, "live")],
                           p, "createObjectURL")
            IN [s2 EXCEPT !.statusClass = "success", !.link[p] = "status",
                          !.revokeTimer[p] = 2, !.isDownloading = FALSE,
                          !.btnDisabled = FALSE, !.btnOnclick = "download",
                          !.pc[p] = "done", !.outcome[p] = "ok"]

\* A faulty deliverInline that revokes the URL before the click.
deliverInlineRevokeFirst(s, p, d) ==
  LET s1 == Call([s EXCEPT !.urls[p] = Append(@, "live"),
                           !.named[p] = "filename"],
                 p, "createObjectURL")
  IN IF d = "ok"
       THEN Succeed([Call(Call(s1, p, "revokeObjectURL"), p, "click")
                       EXCEPT !.saved[p] = TRUE, !.urls[p] = <<"revoked">>], p)
       ELSE Catch(Call(s1, p, "click"), p, "DeliveryError")

\* The delivery written out in the single-fetch revisions: click, then revoke
\* at once.
deliverInline(s, p, d) ==
  LET s1 == Call([s EXCEPT !.urls[p] = Append(@, "live"),
                           !.named[p] = "filename"],
                 p, "createObjectURL")
  IN IF d = "ok"
       THEN Succeed([Call(Call(s1, p, "click"), p, "revokeObjectURL")
                       EXCEPT !.saved[p] = TRUE, !.urls[p] = <<"revoked">>], p)
       ELSE Catch(Call(s1, p, "click"), p, "DeliveryError")

\* From the payload to the end of downloadEmailAsEml.
Deliver(s, p, blob, d) ==
  LET s1 == [s EXCEPT !.payload[p] = blob]
  IN CASE s.variant \in {"docsA", "part_005"} -> triggerDownloadOpen(s1, p, d)
       [] s.variant = "part_002" -> triggerDownloadClick(s1, p, d)
       [] s.variant = "docsB" -> deliverDocsB(s1, p, d)
       [] OTHER -> deliverInline(s1, p, d)

----------------------------------------------------------------------------
\* downloadEmailWithRetry, three strategies (docsB, part_005).

\* A faulty Con that writes nothing in any revision.
ConSilent(s, p, e) == s

\* console.log exists in part_005's fetcher only; docsB's is silent.
Con(s, p, e) == IF s.variant = "part_005" THEN ConsoleLog(s, p, e) ELSE s

\* `await delay(...)`, resumed at label l.
delay(s, p, l) == Goto(Call(s, p, "delay"), p, l)

\* A faulty throwAllFailed after which the button stays disabled.
throwAllFailedDisabled(s, p) ==
  [Catch([s EXCEPT !.errEntries[p] = <<>>], p, "FetchExhausted")
     EXCEPT !.btnDisabled = TRUE]

\* `throw new Error("All download methods failed...")`: a fixed text.
throwAllFailed(s, p) == Catch([s EXCEPT !.errEntries[p] = <<>>], p, "FetchExhausted")

\* A faulty s1Fetch that gives the whole download up on a network error.
s1FetchFatal(s, p, o) ==
  CASE o = "ok" -> Goto(s, p, "s1_blob")
    [] o = "bad" -> IF s.variant = "part_005"
                      THEN Goto(Con(s, p, "Method 1 failed"), p, "s1_text")
                      ELSE delay(s, p, "delay1")
    [] OTHER -> Catch(s, p, "NetworkError")

\* Method 1: the response of GET /messages/{id}/$value arrived (or fetch threw).
s1Fetch(s, p, o) ==
  CASE o = "ok" -> Goto(s, p, "s1_blob")
    [] o = "bad" -> IF s.variant = "part_005"
                      THEN Goto(Con(s, p, "Method 1 failed"), p, "s1_text")
                      ELSE delay(s, p, "delay1")
    [] OTHER -> delay(Con(s, p, "Method 1 error"), p, "delay1")

\* A faulty s1Blob that reads the body and goes on to Method 2 all the same.
s1BlobNoReturn(s, p, o, d) ==
  delay([s EXCEPT !.payload[p] = IF o = "ok" THEN "mime1" ELSE @], p, "delay1")

\* Method 1: response.blob() settled.
s1Blob(s, p, o, d) ==
  IF o = "ok" THEN Deliver(s, p, "mime1", d)
              ELSE delay(Con(s, p, "Method 1 error"), p, "delay1")

\* Method 1 (part_005): response.text() of the failed response settled.
s1Text(s, p, o) ==
  IF o = "ok" THEN delay(Con(s, p, "Error response"), p, "delay1")
              ELSE delay(Con(s, p, "Method 1 error"), p, "delay1")

\* A faulty delay1Done that tries Method 1 again after the pause.
delay1DoneAgain(s, p) == Goto(Fetch(s, p, "req1"), p, "s1_fetch")

\* The first pause is over: Method 2 asks for the metadata.
delay1Done(s, p) == Goto(Fetch(s, p, "req2meta"), p, "s2_meta")

\* Method 2: the metadata response arrived.
s2Meta(s, p, o) ==
  CASE o = "ok" -> Goto(s, p, "s2_json")
    [] o = "bad" -> delay(Con(s, p, "Method 2 metadata failed"), p, "delay2")
    [] OTHER -> delay(Con(s, p, "Method 2 error"), p, "delay2")

\* A faulty s2Json that asks for the MIME content under the caller's itemId.
s2JsonCallerId(s, p, o, m) ==
  IF o = "ok"
    THEN Goto(Fetch(Con([s EXCEPT !.method2[p] = <<m, s.item[p]>>], p, "Got metadata"),
                    p, "req2mime"), p, "s2_mime")
    ELSE delay(Con(s, p, "Method 2 error"), p, "delay2")

\* Method 2: metadataResponse.json() settled, m being metadata.id; on success
\* the MIME request with metadata.id is issued.
s2Json(s, p, o, m) ==
  IF o = "ok"
    THEN Goto(Fetch(Con([s EXCEPT !.method2[p] = <<m, m>>], p, "Got metadata"),
                    p, "req2mime"), p, "s2_mime")
    ELSE delay(Con(s, p, "Method 2 error"), p, "delay2")

\* Method 2: the MIME response arrived; metadata is not read again.
s2Mime(s, p, o) ==
  LET s1 == [s EXCEPT !.method2[p] = <<>>]
  IN CASE o = "ok" -> Goto(s1, p, "s2_blob")
       [] o = "bad" -> delay(Con(s1, p, "Method 2 MIME failed"), p, "delay2")
       [] OTHER -> delay(Con(s1, p, "Method 2 error"), p, "delay2")

\* Method 2: mimeResponse.blob() settled.
s2Blob(s, p, o, d) ==
  IF o = "ok" THEN Deliver(s, p, "mime2", d)
              ELSE delay(Con(s, p, "Method 2 error"), p, "delay2")

\* The second pause is over: Method 3 asks for the structured record.
delay2Done(s, p) == Goto(Fetch(s, p, "req3"), p, "s3_fetch")

\* Method 3: the response arrived.
s3Fetch(s, p, o) ==
  CASE o = "ok" -> Goto(s, p, "s3_json")
    [] o = "bad" -> IF s.variant = "part_005"
                      THEN Goto(Con(s, p, "Method 3 failed"), p, "s3_text")
                      ELSE throwAllFailed(s, p)
    [] OTHER -> throwAllFailed(Con(s, p, "Method 3 error"), p)

\* Method 3: fullResponse.json() settled; on success createEmlFromJson builds
\* the payload ("throw" covers an exception of either).
s3Json(s, p, o, d) ==
  IF o = "ok" THEN Deliver(Con(s, p, "Got full message data"), p, "eml3", d)
              ELSE throwAllFailed(Con(s, p, "Method 3 error"), p)

\* Method 3 (part_005): fullResponse.text() of the failed response settled.
s3Text(s, p, o) ==
  IF o = "ok" THEN throwAllFailed(Con(s, p, "Method 3 error response"), p)
              ELSE throwAllFailed(Con(s, p, "Method 3 error"), p)

----------------------------------------------------------------------------
\* downloadEmailWithRetry, encoding trial (docsA, part_002).

EncodingRequests == <<"enc1", "enc2", "enc3", "enc4">>

\* errorDetails.push(...)
Push(s, p, m, k) == [s EXCEPT !.details[p] = Append(@, [method |-> m, kind |-> k])]

\* `throw new Error(detailedError)`: the text joins errorDetails.
throwDetailed(s, p) == Catch([s EXCEPT !.errEntries[p] = s.details[p]], p, "FetchExhausted")

\* The request with encodingMethods[i] arrived (or fetch threw).
encFetch(s, p, o) ==
  CASE o = "ok" -> Goto(s, p, "enc_json")
    [] o = "bad" -> Goto(s, p, "enc_text")
    [] OTHER -> delay(Push(s, p, s.idx[p], "error"), p, "enc_delay")

\* A faulty encJson that keeps the payload and goes on with the next encoding.
encJsonGoOn(s, p, o, d) ==
  IF o = "ok" THEN delay([s EXCEPT !.payload[p] = "emlEnc"], p, "enc_delay")
              ELSE delay(Push(s, p, s.idx[p], "error"), p, "enc_delay")

\* fullResponse.json() settled; on success createEmlFromJson builds the payload.
encJson(s, p, o, d) ==
  IF o = "ok" THEN Deliver(s, p, "emlEnc", d)
              ELSE delay(Push(s, p, s.idx[p], "error"), p, "enc_delay")

\* A faulty encText that enters nothing when the body of the failed response
\* cannot be read.
encTextSilent(s, p, o) ==
  IF o = "ok" THEN delay(Push(s, p, s.idx[p], "failed"), p, "enc_delay")
              ELSE delay(s, p, "enc_delay")

\* fullResponse.text() of a failed response settled.
encText(s, p, o) ==
  IF o = "ok" THEN delay(Push(s, p, s.idx[p], "failed"), p, "enc_delay")
              ELSE delay(Push(s, p, s.idx[p], "error"), p, "enc_delay")

\* What the host has of the message in the pane: a value, or nothing (an
\* empty text counts as nothing in `currentSubject && currentFrom`).
Readings == {"some", "none"}

\* The search block of part_002 up to its first await: subject and sender
\* address are read from the host.
searchOrGiveUp(s, p, subject, from) ==
  LET s1 == Ret(Ret(s, p, "subject", subject), p, "from", from)
  IN IF subject = "some" /\ from = "some"
       THEN Goto(Fetch(s1, p, "search"), p, "search_fetch")
       ELSE throwDetailed(Push(s1, p, 0, "missing"), p)

\* A faulty encDelayDone that searches as soon as one of the two is there.
encDelayDoneEither(s, p, subject, from) ==
  IF s.idx[p] < Len(EncodingRequests)
    THEN Goto(Fetch([s EXCEPT !.idx[p] = @ + 1], p, EncodingRequests[s.idx[p] + 1]),
              p, "enc_fetch")
    ELSE IF s.variant = "docsA" THEN throwDetailed(s, p)
         ELSE IF subject = "some" \/ from = "some"
                THEN Goto(Fetch(Ret(Ret(s, p, "subject", subject), p, "from", from),
                                p, "search"), p, "search_fetch")
                ELSE searchOrGiveUp(s, p, subject, from)

\* The pause after a failed encoding is over: next encoding, or the end of
\* the loop.  subject, from: what the host has of the two.
encDelayDone(s, p, subject, from) ==
  IF s.idx[p] < Len(EncodingRequests)
    THEN Goto(Fetch([s EXCEPT !.idx[p] = @ + 1], p, EncodingRequests[s.idx[p] + 1]),
              p, "enc_fetch")
    ELSE IF s.variant = "docsA" THEN throwDetailed(s, p)
         ELSE searchOrGiveUp(s, p, subject, from)

\* part_002: the $search response arrived.
searchFetch(s, p, o) ==
  CASE o = "ok" -> Goto(s, p, "search_json")
    [] o = "bad" -> Goto(s, p, "search_text")
    [] OTHER -> throwDetailed(Push(s, p, 0, "error"), p)

\* part_002: searchResponse.json() settled: a hit, no hit, or an exception.
searchJson(s, p, o, d) ==
  CASE o = "ok" -> Deliver(s, p, "emlSearch", d)
    [] o = "bad" -> throwDetailed(Push(s, p, 0, "none"), p)
    [] OTHER -> throwDetailed(Push(s, p, 0, "error"), p)

\* part_002: searchResponse.text() settled.
searchText(s, p, o) ==
  IF o = "ok" THEN throwDetailed(Push(s, p, 0, "failed"), p)
              ELSE throwDetailed(Push(s, p, 0, "error"), p)

\* Entry of downloadEmailWithRetry, up to its first await.
downloadEmailWithRetry(s, p) ==
  IF s.variant \in ThreeStrategy
    THEN Goto(Fetch(s, p, "req1"), p, "s1_fetch")
    ELSE IF s.item[p] = "nonLatin1"
      THEN \* btoa(itemId) raises while encodingMethods is built
           Catch(s, p, "InvalidCharacterError")
      ELSE Goto(Fetch([s EXCEPT !.idx[p] = 1], p, EncodingRequests[1]), p, "enc_fetch")

----------------------------------------------------------------------------
\* The credential provider glue: initializeMsal, signIn, getToken.

\* The statements of downloadEmailAsEml after `await getToken()`, up to the
\* next await.  t: the token, id: the itemId the host supplies.
afterToken(s, p, t, id) ==
  LET s1 == [s EXCEPT !.tok[p] = t, !.item[p] = id]
  IN IF s.variant \in Guarded
       THEN IF id = "" THEN Catch(s1, p, "InvalidIdentifier")
                       ELSE downloadEmailWithRetry(s1, p)
       ELSE \* encodeURIComponent(itemId) and the one fetch, whatever itemId is
            Goto(Fetch(s1, p, "req1"), p, "fetch_wait")

\* A faulty fetchSettled without the test of response.ok.
fetchSettledLenient(s, p, o) ==
  CASE o = "ok" -> Goto(s, p, "blob_wait")
    [] o = "bad" -> Goto(s, p, "blob_wait")
    [] OTHER -> Catch(s, p, "NetworkError")

\* Single-fetch revisions: downloadEmailAsEml after `await fetch(...)` settled.
fetchSettled(s, p, o) ==
  CASE o = "ok" -> Goto(s, p, "blob_wait")
    [] o = "bad" -> Catch(s, p, "HttpError")
    [] OTHER -> Catch(s, p, "NetworkError")

\* A faulty blobSettled that goes on to the delivery without a body.
blobSettledAnyway(s, p, o, d) ==
  Deliver(s, p, IF o = "ok" THEN "mime" ELSE "", d)

\* Single-fetch revisions: downloadEmailAsEml after `await response.blob()`.
blobSettled(s, p, o, d) ==
  IF o = "ok" THEN Deliver(s, p, "mime", d)
              ELSE Catch(s, p, "NetworkError")

\* getToken: the try block, up to `await msalInstance.acquireTokenSilent(...)`.
acquireTokenSilent(s, p) ==
  IF s.msalInstance = 0
    THEN Catch(s, p, "TypeError")
    ELSE Goto(TokenOp(s, p, "acquireTokenSilent"), p, "silent_wait")

\* A faulty silentFailed that opens the popup whatever the silent error was.
silentFailedAnyError(s, p, o) ==
  IF s.msalInstance = 0
    THEN Catch(s, p, "TypeError")
    ELSE Goto(TokenOp(s, p, "acquireTokenPopup"), p, "popup_wait")

\* getToken: the catch block, entered with the error of the silent attempt.
silentFailed(s, p, o) ==
  IF o = "interaction"
    THEN IF s.msalInstance = 0
           THEN Catch(s, p, "TypeError")
           ELSE Goto(TokenOp(s, p, "acquireTokenPopup"), p, "popup_wait")
    ELSE Catch(s, p, "AuthError")

\* A faulty popupSettled that asks the popup again when it failed.
popupSettledAgain(s, p, o, id) ==
  IF o = "ok" THEN afterToken(s, p, "tokenPopup", id)
              ELSE Goto(TokenOp(s, p, "acquireTokenPopup"), p, "popup_wait")

\* getToken after `await msalInstance.acquireTokenPopup(...)` settled.
popupSettled(s, p, o, id) ==
  IF o = "ok" THEN afterToken(s, p, "tokenPopup", id)
              ELSE Catch(s, p, "AuthError")

\* getToken after `await msalInstance.acquireTokenSilent(...)` settled.
silentSettled(s, p, o, id) ==
  IF o = "ok" THEN afterToken(s, p, "tokenSilent", id)
              ELSE silentFailed(s, p, o)

\* A faulty loginSettled that goes on to the silent acquisition after a failed
\* sign-in.
loginSettledGoesOn(s, p, o) ==
  acquireTokenSilent([s EXCEPT !.hasAccount = (o = "ok")], p)

\* getToken after `await signIn()` settled: loginResponse.account is used.
loginSettled(s, p, o) ==
  IF o = "ok" THEN acquireTokenSilent([s EXCEPT !.hasAccount = TRUE], p)
              ELSE Catch(s, p, "AuthError")

\* signIn, up to `await msalInstance.loginPopup(...)`.
signIn(s, p) ==
  IF \/ s.variant = "part_000" /\ ~s.isInitialized
     \/ s.variant \notin ConstInstance /\ s.msalInstance = 0
    THEN Catch(s, p, "NotInitialized")
    ELSE Goto(TokenOp(s, p, "loginPopup"), p, "login_wait")

\* getToken from `msalInstance.getAllAccounts()[0]` on.
getAccount(s, p) ==
  IF s.msalInstance = 0
    THEN Catch(s, p, "TypeError")
    ELSE IF s.hasAccount
           THEN acquireTokenSilent(Ret(TokenOp(s, p, "getAllAccounts"), p,
                                       "getAllAccounts", "some"), p)
           ELSE signIn(Ret(TokenOp(s, p, "getAllAccounts"), p,
                           "getAllAccounts", "none"), p)

\* A faulty initializeMsal without the test that makes it idempotent.
initializeMsalAlways(s, p, l) ==
  IF s.variant \in ConstInstance
    THEN Goto(Call([s EXCEPT !.instState[1] = "initializing"], p, "initialize"), p, l)
    ELSE Goto(Call(Call([s EXCEPT !.msalInstance = p,
                                  !.instState[p] = "initializing"],
                         p, "new"), p, "initialize"), p, l)

\* initializeMsal, up to its await (or its early return); the caller resumes
\* at label l when initialize() settles.
initializeMsal(s, p, l) ==
  CASE s.variant = "part_000" ->
         IF s.isInitialized
           THEN Goto(s, p, "init_ret")
           ELSE Goto(Call([s EXCEPT !.instState[1] = "initializing"], p, "initialize"),
                     p, l)
    [] s.variant = "taskpane" ->
         \* defined in the second copy, never called
         Goto(Call([s EXCEPT !.instState[1] = "initializing"], p, "initialize"), p, l)
    [] OTHER ->
         IF s.msalInstance # 0
           THEN Goto(s, p, "init_ret")
           ELSE Goto(Call(Call([s EXCEPT !.msalInstance = p,
                                         !.instState[p] = "initializing"],
                                p, "new"), p, "initialize"), p, l)

\* getToken, up to its first await.
getToken(s, p) ==
  CASE s.variant = "taskpane" -> getAccount(s, p)
    [] s.variant = "part_000" ->
         IF ~s.isInitialized THEN Catch(s, p, "NotInitialized") ELSE getAccount(s, p)
    [] OTHER ->
         IF s.msalInstance = 0 THEN initializeMsal(s, p, "gt_init_wait")
                               ELSE getAccount(s, p)

\* A faulty initializeSettled whose catch block keeps the client.
initializeSettledKeeps(s, p, l, ok) ==
  LET i == InstOf(s, p)
  IN IF ok
       THEN LET s1 == [s EXCEPT !.instState[i] = "ready", !.initOk = @ + 1,
                                !.isInitialized = IF s.variant = "part_000"
                                                    THEN TRUE ELSE @]
            IN IF l = "init_wait" THEN getToken(s1, p) ELSE getAccount(s1, p)
       ELSE Catch([s EXCEPT !.instState[i] = "failed"], p, "InitError")

\* initializeMsal after `await msalInstance.initialize()` settled; then the
\* caller goes on (l is where the caller waited).
initializeSettled(s, p, l, ok) ==
  LET i == InstOf(s, p)
  IN IF ok
       THEN LET s1 == [s EXCEPT !.instState[i] = "ready", !.initOk = @ + 1,
                                !.isInitialized = IF s.variant = "part_000"
                                                    THEN TRUE ELSE @]
            IN IF l = "init_wait" THEN getToken(s1, p) ELSE getAccount(s1, p)
       ELSE Catch([s EXCEPT !.instState[i] = "failed",
                            !.msalInstance = IF s.variant \in ConstInstance
                                               THEN @ ELSE 0],
                  p, "InitError")

\* A faulty downloadEmailAsEml whose guard leaves through the last statement,
\* `isDownloading = false`.
downloadEmailAsEmlRelease(s, p) ==
  IF s.variant \in Guarded /\ s.isDownloading
    THEN [s EXCEPT !.pc[p] = "done", !.outcome[p] = "rejected",
                   !.isDownloading = FALSE]
    ELSE LET s1 == IF s.variant \in Guarded
                     THEN [s EXCEPT !.isDownloading = TRUE, !.btnDisabled = TRUE,
                                    !.statusClass = "progress"]
                     ELSE [s EXCEPT !.statusClass = "progress"]
         IN CASE s.variant = "taskpane" -> getToken(s1, p)
              [] s.variant = "part_000" ->
                   IF s1.isInitialized THEN getToken(s1, p)
                                       ELSE initializeMsal(s1, p, "init_wait")
              [] OTHER -> initializeMsal(s1, p, "init_wait")

\* downloadEmailAsEml from its entry to its first await.
downloadEmailAsEml(s, p) ==
  IF s.variant \in Guarded /\ s.isDownloading
    THEN [s EXCEPT !.pc[p] = "done", !.outcome[p] = "rejected"]
    ELSE LET s1 == IF s.variant \in Guarded
                     THEN [s EXCEPT !.isDownloading = TRUE, !.btnDisabled = TRUE,
                                    !.statusClass = "progress"]
                     ELSE [s EXCEPT !.statusClass = "progress"]
         IN CASE s.variant = "taskpane" -> getToken(s1, p)
              [] s.variant = "part_000" ->
                   IF s1.isInitialized THEN getToken(s1, p)
                                       ELSE initializeMsal(s1, p, "init_wait")
              [] OTHER -> initializeMsal(s1, p, "init_wait")

----------------------------------------------------------------------------
\* Events of the page.

Alive == pane # "closed"

\* document's DOMContentLoaded listener.
DomContentLoaded ==
  /\ Alive /\ hostPc = "loading"
  /\ Apply([Now EXCEPT !.hostPc = "dom",
                       !.btnOnclick = IF variant \in Guarded THEN "download" ELSE @,
                       !.domTimer = (variant = "part_004")])

\* part_004: the 3 s timer of the DOMContentLoaded listener.
DomTimerFire ==
  /\ Alive /\ domTimer
  /\ Apply([Now EXCEPT !.domTimer = FALSE,
                       !.btnOnclick = IF hostPc # "ready" THEN "download" ELSE @])

\* Office.onReady's callback, for a host that is Outlook or not.
OfficeReady ==
  /\ Alive /\ hostPc = "dom"
  /\ \E isOutlook \in BOOLEAN :
       IF ~isOutlook THEN Apply([Now EXCEPT !.hostPc = "not_outlook"])
       ELSE CASE variant = "part_000" ->
                   Apply([Now EXCEPT !.hostPc = "ready_init",
                                     !.instState[1] = "initializing"])
              [] variant = "part_003" ->
                   LET p == FreeSlot(Now)
                   IN Apply(downloadEmailAsEml([Now EXCEPT !.hostPc = "ready"], p))
              [] variant \in Guarded ->
                   Apply([Now EXCEPT !.hostPc = "ready", !.btnOnclick = "download",
                                     !.autoTimer = TRUE])
              [] OTHER ->
                   Apply([Now EXCEPT !.hostPc = "ready", !.btnOnclick = "download"])

\* part_000: `await initializeMsal()` in Office.onReady settled.
OnReadyInitSettled ==
  /\ Alive /\ hostPc = "ready_init" /\ initOk < MaxInitOk
  /\ \E ok \in BOOLEAN :
       IF ok THEN Apply([Now EXCEPT !.hostPc = "ready", !.instState[1] = "ready",
                                    !.isInitialized = TRUE, !.initOk = @ + 1,
                                    !.btnOnclick = "download"])
             ELSE Apply([Now EXCEPT !.hostPc = "init_failed",
                                    !.instState[1] = "failed",
                                    !.statusClass = "error"])

\* The auto-start timer of Office.onReady fires.
AutoStart ==
  /\ Alive /\ autoTimer /\ HasFree(Now)
  /\ LET p == FreeSlot(Now)
     IN Apply(downloadEmailAsEml([Now EXCEPT !.autoTimer = FALSE], p))

\* The user clicks the download button while its handler is downloadEmailAsEml.
Click ==
  /\ Alive /\ btnOnclick = "download" /\ ~btnDisabled /\ HasFree(Now)
  /\ LET p == FreeSlot(Now)
     IN Apply(downloadEmailAsEml(Now, p))

\* docsB: the user clicks the button after it became "Close Panel"; the
\* handler replaces document.body.innerHTML.
ClickClose ==
  /\ Alive /\ btnOnclick = "close" /\ ~btnDisabled
  /\ Apply([Now EXCEPT !.btnOnclick = "removed"])

\* part_003, part_004: the auto-close timer fires; closeContainer() is called
\* if Office.context.ui exists.
AutoClose ==
  /\ Alive /\ pane = "closing"
  /\ \E hasUi \in BOOLEAN :
       Apply([Now EXCEPT !.pane = IF hasUi THEN "closed" ELSE "open"])

\* The cleanup timer of a delivery fires.
cleanup(s, p) ==
  LET k == s.revokeTimer[p]
      s1 == [s EXCEPT !.revokeTimer[p] = 0]
  IN IF s.variant = "part_002"
       THEN \* document.body.removeChild(link) raises unless the link is in body
            IF s.link[p] = "body"
              THEN [s1 EXCEPT !.link[p] = "removed", !.urls[p][k] = "revoked"]
              ELSE s1
       ELSE IF s.variant = "docsB" /\ k = 1 /\ s.btnOnclick = "removed"
              THEN \* document.body.removeChild(hiddenDiv) raises: body was replaced
                   s1
              ELSE [s1 EXCEPT !.urls[p][k] = "revoked"]

RevokeTimerFire ==
  /\ Alive
  /\ \E p \in Slots : revokeTimer[p] # 0 /\ Apply(cleanup(Now, p))

----------------------------------------------------------------------------
\* Resumptions of a suspended downloadEmailAsEml.

\* How a fetch settles: a success status, another status, or a network error.
Responses == {"ok", "bad", "throw"}
\* How a body read (blob, json, text) or a provider call settles.
Settled == {"ok", "throw"}

At(p, l) == Alive /\ pc[p] = l

\* `await initializeMsal()` in downloadEmailAsEml, initialize() settled.
InitSettled ==
  \E p \in Slots, ok \in BOOLEAN :
    /\ At(p, "init_wait") /\ initOk < MaxInitOk
    /\ Apply(initializeSettled(Ret(Now, p, "initialize", IF ok THEN "ok" ELSE "throw"),
                               p, "init_wait", ok))

\* `await initializeMsal()` in downloadEmailAsEml, initializeMsal had returned early.
InitReturned ==
  \E p \in Slots : At(p, "init_ret") /\ Apply(getToken(Now, p))

\* `await initializeMsal()` in getToken, initialize() settled.
GetTokenInitSettled ==
  \E p \in Slots, ok \in BOOLEAN :
    /\ At(p, "gt_init_wait") /\ initOk < MaxInitOk
    /\ Apply(initializeSettled(Ret(Now, p, "initialize", IF ok THEN "ok" ELSE "throw"),
                               p, "gt_init_wait", ok))

\* `await msalInstance.loginPopup(...)` settled.
LoginSettled ==
  \E p \in Slots, o \in Settled :
    /\ At(p, "login_wait")
    /\ Apply(loginSettled(Ret(Now, p, "loginPopup", o), p, o))

\* `await msalInstance.acquireTokenSilent(...)` settled: a token, the
\* InteractionRequiredAuthError, or another error.
SilentSettled ==
  \E p \in Slots, o \in {"ok", "interaction", "other"}, id \in ItemIdsOf(variant) :
    /\ At(p, "silent_wait")
    /\ Apply(silentSettled(Ret(Now, p, "acquireTokenSilent", o), p, o, id))

\* `await msalInstance.acquireTokenPopup(...)` settled.
PopupSettled ==
  \E p \in Slots, o \in Settled, id \in ItemIdsOf(variant) :
    /\ At(p, "popup_wait")
    /\ Apply(popupSettled(Ret(Now, p, "acquireTokenPopup", o), p, o, id))

\* Single-fetch revisions: `await fetch(...)` settled.
FetchSettled ==
  \E p \in Slots, o \in Responses :
    /\ At(p, "fetch_wait")
    /\ Apply(fetchSettled(Ret(Now, p, "req1", o), p, o))

\* Single-fetch revisions: `await response.blob()` settled.
BlobSettled ==
  \E p \in Slots, o \in Settled, d \in DeliveryOutcomes(variant) :
    /\ At(p, "blob_wait")
    /\ Apply(blobSettled(Ret(Now, p, "blob1", o), p, o, d))

S1FetchSettled ==
  \E p \in Slots, o \in Responses : At(p, "s1_fetch") /\ Apply(s1Fetch(Ret(Now, p, "req1", o), p, o))

S1BlobSettled ==
  \E p \in Slots, o \in Settled, d \in DeliveryOutcomes(variant) :
    At(p, "s1_blob") /\ Apply(s1Blob(Ret(Now, p, "blob1", o), p, o, d))

S1TextSettled ==
  \E p \in Slots, o \in Settled : At(p, "s1_text") /\ Apply(s1Text(Ret(Now, p, "text1", o), p, o))

Delay1Elapsed ==
  \E p \in Slots : At(p, "delay1") /\ Apply(delay1Done(Now, p))

S2MetaSettled ==
  \E p \in Slots, o \in Responses : At(p, "s2_meta") /\ Apply(s2Meta(Ret(Now, p, "req2meta", o), p, o))

S2JsonSettled ==
  \E p \in Slots, o \in Settled, m \in MetadataIds :
    At(p, "s2_json") /\ Apply(s2Json(Ret(Now, p, "json2", o), p, o, m))

S2MimeSettled ==
  \E p \in Slots, o \in Responses : At(p, "s2_mime") /\ Apply(s2Mime(Ret(Now, p, "req2mime", o), p, o))

S2BlobSettled ==
  \E p \in Slots, o \in Settled, d \in DeliveryOutcomes(variant) :
    At(p, "s2_blob") /\ Apply(s2Blob(Ret(Now, p, "blob2", o), p, o, d))

Delay2Elapsed ==
  \E p \in Slots : At(p, "delay2") /\ Apply(delay2Done(Now, p))

S3FetchSettled ==
  \E p \in Slots, o \in Responses : At(p, "s3_fetch") /\ Apply(s3Fetch(Ret(Now, p, "req3", o), p, o))

S3JsonSettled ==
  \E p \in Slots, o \in Settled, d \in DeliveryOutcomes(variant) :
    At(p, "s3_json") /\ Apply(s3Json(Ret(Now, p, "json3", o), p, o, d))

S3TextSettled ==
  \E p \in Slots, o \in Settled : At(p, "s3_text") /\ Apply(s3Text(Ret(Now, p, "text3", o), p, o))

EncFetchSettled ==
  \E p \in Slots, o \in Responses : At(p, "enc_fetch") /\ Apply(encFetch(Now, p, o))

EncJsonSettled ==
  \E p \in Slots, o \in Settled, d \in DeliveryOutcomes(variant) :
    At(p, "enc_json") /\ Apply(encJson(Now, p, o, d))

EncTextSettled ==
  \E p \in Slots, o \in Settled : At(p, "enc_text") /\ Apply(encText(Now, p, o))

EncDelayElapsed ==
  \E p \in Slots, subject \in Readings, from \in Readings :
    At(p, "enc_delay") /\ Apply(encDelayDone(Now, p, subject, from))

SearchFetchSettled ==
  \E p \in Slots, o \in Responses : At(p, "search_fetch") /\ Apply(searchFetch(Now, p, o))

SearchJsonSettled ==
  \E p \in Slots, o \in Responses, d \in DeliveryOutcomes(variant) :
    At(p, "search_json") /\ Apply(searchJson(Now, p, o, d))

SearchTextSettled ==
  \E p \in Slots, o \in Settled : At(p, "search_text") /\ Apply(searchText(Now, p, o))

Next ==
  \/ DomContentLoaded \/ DomTimerFire \/ OfficeReady \/ OnReadyInitSettled
  \/ AutoStart \/ Click \/ ClickClose \/ AutoClose \/ RevokeTimerFire
  \/ InitSettled \/ InitReturned \/ GetTokenInitSettled
  \/ LoginSettled \/ SilentSettled \/ PopupSettled
  \/ FetchSettled \/ BlobSettled
  \/ S1FetchSettled \/ S1BlobSettled \/ S1TextSettled \/ Delay1Elapsed
  \/ S2MetaSettled \/ S2JsonSettled \/ S2MimeSettled \/ S2BlobSettled
  \/ Delay2Elapsed \/ S3FetchSettled \/ S3JsonSettled \/ S3TextSettled
  \/ EncFetchSettled \/ EncJsonSettled \/ EncTextSettled \/ EncDelayElapsed
  \/ SearchFetchSettled \/ SearchJsonSettled \/ SearchTextSettled

Spec == Init /\ [][Next]_vars

\* The revisions with the re-entry guard, alone: what can happen in them.
InitGuarded == Init /\ variant \in Guarded

NextGuarded ==
  \/ DomContentLoaded \/ OfficeReady
  \/ AutoStart \/ Click \/ ClickClose \/ RevokeTimerFire
  \/ InitSettled \/ InitReturned
  \/ LoginSettled \/ SilentSettled \/ PopupSettled
  \/ S1FetchSettled \/ S1BlobSettled \/ S1TextSettled \/ Delay1Elapsed
  \/ S2MetaSettled \/ S2JsonSettled \/ S2MimeSettled \/ S2BlobSettled
  \/ Delay2Elapsed \/ S3FetchSettled \/ S3JsonSettled \/ S3TextSettled
  \/ EncFetchSettled \/ EncJsonSettled \/ EncTextSettled \/ EncDelayElapsed
  \/ SearchFetchSettled \/ SearchJsonSettled \/ SearchTextSettled

SpecGuarded == InitGuarded /\ [][NextGuarded]_vars

\* Every await of downloadEmailAsEml and of what it calls settles: the
\* promise of initialize, of a token call, of a fetch, of a body read, of a
\* pause.  The guard lets one call at a time be suspended, so weak fairness
\* of the resumptions together is fairness of the one that is enabled.
ResumeGuarded ==
  \/ InitSettled \/ InitReturned
  \/ LoginSettled \/ SilentSettled \/ PopupSettled
  \/ S1FetchSettled \/ S1BlobSettled \/ S1TextSettled \/ Delay1Elapsed
  \/ S2MetaSettled \/ S2JsonSettled \/ S2MimeSettled \/ S2BlobSettled
  \/ Delay2Elapsed \/ S3FetchSettled \/ S3JsonSettled \/ S3TextSettled
  \/ EncFetchSettled \/ EncJsonSettled \/ EncTextSettled \/ EncDelayElapsed
  \/ SearchFetchSettled \/ SearchJsonSettled \/ SearchTextSettled

\* The two revisions whose button starts a download again after every end.
RetryForms == {"part_002", "part_005"}

InitRetry == Init /\ variant \in RetryForms

NextRetry ==
  \/ DomContentLoaded \/ OfficeReady
  \/ AutoStart \/ Click \/ RevokeTimerFire
  \/ ResumeGuarded

SpecRetry == InitRetry /\ [][NextRetry]_vars

SpecRetryFair == SpecRetry /\ WF_vars(ResumeGuarded)

\* The single-fetch revisions, alone.
InitSingle == Init /\ variant \in SingleFetch

NextSingle ==
  \/ DomContentLoaded \/ DomTimerFire \/ OfficeReady \/ OnReadyInitSettled
  \/ Click \/ AutoClose
  \/ InitSettled \/ InitReturned \/ GetTokenInitSettled
  \/ LoginSettled \/ SilentSettled \/ PopupSettled
  \/ FetchSettled \/ BlobSettled

SpecSingle == InitSingle /\ [][NextSingle]_vars

\* The first and the last form of downloadEmailAsEml's try/catch: around the
\* single fetch with the close timer (part_004), and guarded around the three
\* strategies (part_005).
CaughtForms == {"part_004", "part_005"}

InitCaught == Init /\ variant \in CaughtForms

NextCaught ==
  \/ DomContentLoaded \/ DomTimerFire \/ OfficeReady
  \/ AutoStart \/ Click \/ AutoClose \/ RevokeTimerFire
  \/ InitSettled \/ InitReturned \/ GetTokenInitSettled
  \/ LoginSettled \/ SilentSettled \/ PopupSettled
  \/ FetchSettled \/ BlobSettled
  \/ S1FetchSettled \/ S1BlobSettled \/ S1TextSettled \/ Delay1Elapsed
  \/ S2MetaSettled \/ S2JsonSettled \/ S2MimeSettled \/ S2BlobSettled
  \/ Delay2Elapsed \/ S3FetchSettled \/ S3JsonSettled \/ S3TextSettled

SpecCaught == InitCaught /\ [][NextCaught]_vars

\* The revisions that between them hold every form of the provider glue: the
\* client made at load and never initialized (taskpane), made at load and
\* initialized behind a flag (part_000), made lazily without the re-entry
\* guard (part_001) and with it (part_005).
ProviderForms == {"taskpane", "part_000", "part_001", "part_005"}

InitProvider == Init /\ variant \in ProviderForms

NextProvider ==
  \/ DomContentLoaded \/ OfficeReady \/ OnReadyInitSettled
  \/ AutoStart \/ Click \/ RevokeTimerFire
  \/ InitSettled \/ InitReturned \/ GetTokenInitSettled
  \/ LoginSettled \/ SilentSettled \/ PopupSettled
  \/ FetchSettled \/ BlobSettled
  \/ S1FetchSettled \/ S1BlobSettled \/ S1TextSettled \/ Delay1Elapsed
  \/ S2MetaSettled \/ S2JsonSettled \/ S2MimeSettled \/ S2BlobSettled
  \/ Delay2Elapsed \/ S3FetchSettled \/ S3JsonSettled \/ S3TextSettled

SpecProvider == InitProvider /\ [][NextProvider]_vars

\* The three forms of the object URL's release: revoked at once after the
\* click (part_001), by a timer after a click (part_002), by a timer after
\* window.open (part_005).
ReleaseForms == {"part_001", "part_002", "part_005"}

InitRelease == Init /\ variant \in ReleaseForms

NextRelease ==
  \/ DomContentLoaded \/ OfficeReady
  \/ AutoStart \/ Click \/ RevokeTimerFire
  \/ InitSettled \/ InitReturned
  \/ LoginSettled \/ SilentSettled \/ PopupSettled
  \/ FetchSettled \/ BlobSettled
  \/ S1FetchSettled \/ S1BlobSettled \/ S1TextSettled \/ Delay1Elapsed
  \/ S2MetaSettled \/ S2JsonSettled \/ S2MimeSettled \/ S2BlobSettled
  \/ Delay2Elapsed \/ S3FetchSettled \/ S3JsonSettled \/ S3TextSettled
  \/ EncFetchSettled \/ EncJsonSettled \/ EncTextSettled \/ EncDelayElapsed
  \/ SearchFetchSettled \/ SearchJsonSettled \/ SearchTextSettled

SpecRelease == InitRelease /\ [][NextRelease]_vars

----------------------------------------------------------------------------
\* The candidate encodings of the encoding trial (part_002, docsA), as a
\* function of the raw identifier.  A string is a sequence of characters; the
\* characters an identifier is made of here: a letter, the three characters
\* of base64 that are reserved in a URI, a space, one Latin-1 character
\* beyond ASCII and one character beyond Latin-1.

\* Longest raw identifier tried.
MaxIdLen == 3

IdChars == {"A", "/", "+", "=", " ", "U+00E9", "U+20AC"}

\* The UTF-16 code unit of a character.
CharCode ==
  [c \in IdChars |->
     CASE c = "A" -> 65 [] c = "/" -> 47 [] c = "+" -> 43 [] c = "=" -> 61
       [] c = " " -> 32 [] c = "U+00E9" -> 233 [] OTHER -> 8364]

Ids == UNION {[1..n -> IdChars] : n \in 1..MaxIdLen}

RECURSIVE Flatten(_)
Flatten(ss) == IF ss = <<>> THEN <<>> ELSE Head(ss) \o Flatten(Tail(ss))

HexDigits == <<"0", "1", "2", "3", "4", "5", "6", "7",
               "8", "9", "A", "B", "C", "D", "E", "F">>

\* %XX for one byte.
Pct(b) == <<"%", HexDigits[(b \div 16) + 1], HexDigits[(b % 16) + 1]>>

\* The UTF-8 bytes of a code point of the basic plane.
Utf8(n) ==
  IF n < 128 THEN <<n>>
  ELSE IF n < 2048 THEN <<192 + (n \div 64), 128 + (n % 64)>>
  ELSE <<224 + (n \div 4096), 128 + ((n \div 64) % 64), 128 + (n % 64)>>

PctUtf8(c) == Flatten([i \in DOMAIN Utf8(CharCode[c]) |-> Pct(Utf8(CharCode[c])[i])])

\* Characters encodeURIComponent leaves alone (of IdChars), and those
\* encodeURI leaves alone on top of them.
Unreserved == {"A"}
ReservedKept == {"/", "+", "="}

encodeURIComponent(id) ==
  Flatten([i \in DOMAIN id |-> IF id[i] \in Unreserved THEN <<id[i]>> ELSE PctUtf8(id[i])])

encodeURI(id) ==
  Flatten([i \in DOMAIN id |->
             IF id[i] \in Unreserved \cup ReservedKept THEN <<id[i]>> ELSE PctUtf8(id[i])])

Base64Alphabet ==
  <<"A", "B", "C", "D", "E", "F", "G", "H", "I", "J", "K", "L", "M", "N", "O", "P",
    "Q", "R", "S", "T", "U", "V", "W", "X", "Y", "Z", "a", "b", "c", "d", "e", "f",
    "g", "h", "i", "j", "k", "l", "m", "n", "o", "p", "q", "r", "s", "t", "u", "v",
    "w", "x", "y", "z", "0", "1", "2", "3", "4", "5", "6", "7", "8", "9", "+", "/">>

\* btoa on bytes (each character of a Latin-1 string is one byte).
RECURSIVE btoaBytes(_)
btoaBytes(bs) ==
  LET A(k) == Base64Alphabet[k + 1]
  IN CASE Len(bs) = 0 -> <<>>
       [] Len(bs) = 1 ->
            <<A(bs[1] \div 4), A((bs[1] % 4) * 16), "=", "=">>
       [] Len(bs) = 2 ->
            <<A(bs[1] \div 4), A((bs[1] % 4) * 16 + (bs[2] \div 16)),
              A((bs[2] % 16) * 4), "=">>
       [] OTHER ->
            <<A(bs[1] \div 4), A((bs[1] % 4) * 16 + (bs[2] \div 16)),
              A((bs[2] % 16) * 4 + (bs[3] \div 64)), A(bs[3] % 64)>>
            \o btoaBytes(SubSeq(bs, 4, Len(bs)))

\* btoa() accepts the string: every code unit is at most 0xFF.
Latin1(id) == \A i \in DOMAIN id : CharCode[id[i]] <= 255

\* A faulty base64safe that leaves btoa's output as it is.
base64Plain(id) == btoaBytes([i \in DOMAIN id |-> CharCode[id[i]]])

\* btoa(itemId).replace(/\+/g, '-').replace(/\//g, '_').replace(/=/g, '')
base64safe(id) ==
  LET b == btoaBytes([i \in DOMAIN id |-> CharCode[id[i]]])
      kept == SelectSeq(b, LAMBDA c : c # "=")
  IN [i \in DOMAIN kept |-> CASE kept[i] = "+" -> "-" [] kept[i] = "/" -> "_"
                                [] OTHER -> kept[i]]

\* The array encodingMethods (its values), or the exception btoa raises
\* while the array is built.
candidateEncodings(id) ==
  IF Latin1(id)
    THEN [threw |-> FALSE,
          list |-> <<id, encodeURIComponent(id), encodeURI(id), base64safe(id)>>]
    ELSE [threw |-> TRUE, list |-> <<>>]

\* The function on its own: an identifier is chosen, the array is built.
InitEncodings ==
  /\ PageInit /\ variant = "part_002" /\ hasAccount = FALSE
  /\ stage = "in" /\ input \in Ids /\ output = <<>>

BuildEncodings ==
  /\ stage = "in" /\ variant = "part_002"
  /\ stage' = "out" /\ output' = candidateEncodings(input)
  /\ UNCHANGED <<pageVars, input>>

SpecEncodings == InitEncodings /\ [][BuildEncodings]_vars

----------------------------------------------------------------------------
\* createEmlFromJson (the same text in part_005, part_002 and both scripts of
\* docs/taskpane.js).  A string is a sequence of pieces of text; "\r\n" is a
\* piece of its own, so that lines can be told apart.  An optional value is
\* <<>> when the property is missing and <<v>> when it is there.

\* Longest toRecipients list tried.
MaxRecipients == 2

CRLF == "\r\n"

\* JavaScript's `x || d` on an optional string: d when x is missing or "".
OrElse(x, d) == IF x = <<>> \/ x[1] = <<>> THEN d ELSE x[1]

\* `${x}` on an optional string: the text "undefined" when x is missing.
Interpolated(x) == IF x = <<>> THEN <<"undefined">> ELSE x[1]

\* A faulty toUTCString: the text of Date.prototype.toString.
toStringLocal(d) ==
  IF d = <<<<"2024-01-02T03:04:05Z">>>> THEN <<"Tue Jan 02 2024 03:04:05 GMT+0000">>
                                      ELSE <<"Invalid Date">>

\* new Date(receivedDateTime).toUTCString()
toUTCString(d) ==
  IF d = <<<<"2024-01-02T03:04:05Z">>>> THEN <<"Tue, 02 Jan 2024 03:04:05 GMT">>
                                      ELSE <<"Invalid Date">>

RECURSIVE Join(_, _)
Join(ss, sep) ==
  CASE Len(ss) = 0 -> <<>>
    [] Len(ss) = 1 -> ss[1]
    [] OTHER -> ss[1] \o sep \o Join(Tail(ss), sep)

\* r => `${r.emailAddress.name || ""} <${r.emailAddress.address}>`
formatRecipient(r) ==
  OrElse(r.emailAddress[1].name, <<>>) \o <<" <">>
    \o Interpolated(r.emailAddress[1].address) \o <<">">>

\* message.xRecipients?.map(...).join(', ') || ""
recipientsText(list) ==
  IF list = <<>> THEN <<>>
  ELSE Join([i \in DOMAIN list[1] |-> formatRecipient(list[1][i])], <<", ">>)

\* r.emailAddress.name raises a TypeError when r has no emailAddress.
recipientsThrow(list) ==
  list # <<>> /\ \E i \in DOMAIN list[1] : list[1][i].emailAddress = <<>>

\* if (value) eml += `Name: ${value}\r\n`
headerLine(name, value) ==
  IF value = <<>> THEN <<>> ELSE <<name>> \o value \o <<CRLF>>

\* A faulty contentTypeOf that takes every body for HTML.
contentTypeHtml(body) == "text/html"

\* message.body?.contentType === "html" ? "text/html" : "text/plain"
contentTypeOf(body) ==
  IF body # <<>> /\ body[1].contentType = <<<<"html">>>> THEN "text/html"
                                                        ELSE "text/plain"

\* createEmlFromJson(message): the text it returns, or the TypeError it raises.
createEmlFromJson(m) ==
  LET emailAddress == IF m.sender = <<>> THEN <<>> ELSE m.sender[1].emailAddress
      from == IF emailAddress = <<>> THEN <<"unknown@unknown.com">>
              ELSE OrElse(emailAddress[1].address, <<"unknown@unknown.com">>)
      fromName == IF emailAddress = <<>> THEN <<>>
                  ELSE OrElse(emailAddress[1].name, <<>>)
      subject == OrElse(m.subject, <<"(No Subject)">>)
      body == IF m.body = <<>> THEN <<>> ELSE OrElse(m.body[1].content, <<>>)
      contentType == contentTypeOf(m.body)
  IN IF recipientsThrow(m.toRecipients) \/ recipientsThrow(m.ccRecipients)
          \/ recipientsThrow(m.bccRecipients)
       THEN [threw |-> TRUE, eml |-> <<>>]
       ELSE [threw |-> FALSE,
             eml |-> <<"Date: ">> \o toUTCString(m.receivedDateTime) \o <<CRLF>>
                     \o <<"From: ">>
                     \o (IF fromName # <<>> THEN fromName \o <<" <">> \o from \o <<">">>
                                            ELSE from)
                     \o <<CRLF>>
                     \o headerLine("To: ", recipientsText(m.toRecipients))
                     \o headerLine("Cc: ", recipientsText(m.ccRecipients))
                     \o headerLine("Bcc: ", recipientsText(m.bccRecipients))
                     \o <<"Subject: ">> \o subject \o <<CRLF>>
                     \o <<"MIME-Version: ", "1.0", CRLF>>
                     \o <<"Content-Type: ", contentType, "; charset=utf-8", CRLF>>
                     \o <<"Content-Transfer-Encoding: ", "8bit", CRLF>>
                     \o <<CRLF>>
                     \o body]

\* The records the function is run on: every property may be missing, a
\* recipient entry may lack its emailAddress, and a subject may hold a line
\* break (a JSON string may hold any character).
Texts(ss) == {<<>>} \cup {<<s>> : s \in ss}

Messages ==
  LET Addresses == [name : Texts({<<"Ann">>}), address : Texts({<<"a@x.com">>})]
      MaybeAddress == {<<>>} \cup {<<a>> : a \in Addresses}
      RecipientEntries == [emailAddress : MaybeAddress]
      FullEntry == [emailAddress |-> <<[name |-> <<<<"Ann">>>>, address |-> <<<<"a@x.com">>>>]>>]
      RecipientLists ==
        {<<>>} \cup {<<l>> : l \in UNION {[1..k -> RecipientEntries] : k \in 0..MaxRecipients}}
      Bodies ==
        {<<>>} \cup {<<b>> : b \in [content : Texts({<<"hello">>}),
                                    contentType : Texts({<<"html">>, <<"text">>})]}
  IN [receivedDateTime : Texts({<<"2024-01-02T03:04:05Z">>}),
      sender : {<<>>} \cup {<<[emailAddress |-> e]>> : e \in MaybeAddress},
      toRecipients : RecipientLists,
      ccRecipients : {<<>>, <<<<>>>>, <<<<FullEntry>>>>},
      bccRecipients : {<<>>, <<<<>>>>, <<<<FullEntry>>>>},
      subject : Texts({<<>>, <<"Hi">>, <<"Hi", CRLF, "Subject: ", "x">>}),
      body : Bodies]

\* The function on its own: a record is chosen, the text is built.
InitEml ==
  /\ PageInit /\ variant = "part_005" /\ hasAccount = FALSE
  /\ stage = "in" /\ input \in Messages /\ output = <<>>

BuildEml ==
  /\ stage = "in" /\ variant = "part_005"
  /\ stage' = "out" /\ output' = createEmlFromJson(input)
  /\ UNCHANGED <<pageVars, input>>

SpecEml == InitEml /\ [][BuildEml]_vars

----------------------------------------------------------------------------
\* Properties.

\* Call p's log holds the entry (op, res).
Has(p, op, res) == \E i \in DOMAIN log[p] : log[p][i] = [op |-> op, res |-> res]
\* Call p has issued op.
Asked(p, op) == Has(p, op, "call")

\* C1, as stated: in the three-strategy fetcher, once strategy 1 got a success
\* status the call issues no request of strategy 2 or 3 and ends with strategy
\* 1's payload; once strategy 2's MIME request got a success status, no request
\* of strategy 3 is issued.
C1_AsStated ==
  \A p \in Slots : variant \in ThreeStrategy =>
    /\ Has(p, "req1", "ok") =>
         /\ ~Asked(p, "req2meta") /\ ~Asked(p, "req3")
         /\ pc[p] = "done" => payload[p] = "mime1"
    /\ Has(p, "req2mime", "ok") => ~Asked(p, "req3")

\* C1, amended: in the three-strategy fetcher, when strategy 1 got a success
\* status AND its body was read, the call has strategy 1's payload and has
\* issued no request of strategy 2 or 3; when strategy 2's body was read, the
\* call has strategy 2's payload and has issued no request of strategy 3.  A
\* body read that fails after a success status is a failure of the strategy:
\* the pause and the next strategy follow.
C1_BodyRead ==
  \A p \in Slots : variant \in ThreeStrategy =>
    /\ Has(p, "blob1", "ok") =>
         /\ payload[p] = "mime1"
         /\ ~Asked(p, "delay") /\ ~Asked(p, "req2meta") /\ ~Asked(p, "req3")
    /\ Has(p, "blob2", "ok") => payload[p] = "mime2" /\ ~Asked(p, "req3")
    /\ Has(p, "blob1", "throw") => Asked(p, "delay") /\ payload[p] # "mime1"
    /\ Has(p, "blob2", "throw") => payload[p] \notin {"mime1", "mime2"}

\* Strategy 1 answered with a success status, its body was read and the call
\* is over.
C1_Witness ==
  \E p \in Slots : /\ variant \in ThreeStrategy /\ pc[p] = "done"
                    /\ Has(p, "req1", "ok") /\ Has(p, "blob1", "ok")

\* The requests and pauses of call p's fetcher, in the order they were made.
FetcherOps == {"req1", "delay", "req2meta", "req2mime", "req3"}
IsFetcherCall(e) == e.res = "call" /\ e.op \in FetcherOps
Requests(p) ==
  LET calls == SelectSeq(log[p], IsFetcherCall)
  IN [i \in DOMAIN calls |-> calls[i].op]
IsPrefix(a, b) == Len(a) <= Len(b) /\ \A i \in DOMAIN a : a[i] = b[i]
\* The full course of the fetcher, without and with strategy 2's MIME request.
CourseShort == <<"req1", "delay", "req2meta", "delay", "req3">>
CourseLong == <<"req1", "delay", "req2meta", "req2mime", "delay", "req3">>
\* A request of call p came back with a non-success status or a network error.
Refused(p, op) == Has(p, op, "bad") \/ Has(p, op, "throw")

\* C2: in the three-strategy fetcher the requests are made in the fixed order
\* strategy 1, pause, strategy 2, pause, strategy 3; a non-success status or a
\* network error in strategy 1 or 2 does not end the call but leads, through
\* the pause, to the next strategy's first request; and a strategy's request
\* is made only when every earlier strategy has failed.
C2_FixedOrder ==
  \A p \in Slots : variant \in ThreeStrategy =>
    /\ IsPrefix(Requests(p), CourseShort) \/ IsPrefix(Requests(p), CourseLong)
    /\ Refused(p, "req1") => pc[p] \in {"s1_text", "delay1"} \/ Asked(p, "req2meta")
    /\ Refused(p, "req2meta") \/ Refused(p, "req2mime") =>
         pc[p] = "delay2" \/ Asked(p, "req3")
    /\ Asked(p, "req2meta") => Refused(p, "req1") \/ Has(p, "blob1", "throw")
    /\ Asked(p, "req3") =>
         \/ Refused(p, "req2meta") \/ Has(p, "json2", "throw")
         \/ Refused(p, "req2mime") \/ Has(p, "blob2", "throw")

\* Strategy 1 was refused with a status, strategy 2 with a network error, and
\* strategy 3's request is out.
C2_Witness ==
  \E p \in Slots : /\ variant \in ThreeStrategy
                    /\ Has(p, "req1", "bad") /\ Has(p, "req2meta", "throw")
                    /\ Asked(p, "req3")

\* The strategy a console line of part_005's fetcher reports a failure of
\* (0: the line reports no failure).
MethodOfLine ==
  [l \in {"Method 1 failed", "Error response", "Method 1 error",
          "Method 2 metadata failed", "Method 2 MIME failed", "Method 2 error",
          "Method 3 failed", "Method 3 error response", "Method 3 error",
          "Got metadata", "Got full message data"} |->
     CASE l \in {"Method 1 failed", "Error response", "Method 1 error"} -> 1
       [] l \in {"Method 2 metadata failed", "Method 2 MIME failed", "Method 2 error"} -> 2
       [] l \in {"Method 3 failed", "Method 3 error response", "Method 3 error"} -> 3
       [] OTHER -> 0]

Suspended(p) == pc[p] \notin {"idle", "done"}

\* C4: in the guarded revisions isDownloading is true at every await of
\* downloadEmailAsEml, and false when the call has ended, however it ended
\* (success, or failure of initialization, token, identifier lookup, fetch or
\* delivery); a call turned away by the guard is not an attempt.
C4_FlagSpansAttempt ==
  variant \in Guarded =>
    \A p \in Slots :
      /\ Suspended(p) => isDownloading
      /\ pc[p] = "done" /\ outcome[p] # "rejected" => ~isDownloading

\* An attempt of a guarded revision has ended in the failure of the delivery.
C4_Witness ==
  \E p \in Slots : /\ variant \in Guarded /\ pc[p] = "done"
                    /\ outcome[p] = "DeliveryError" /\ ~isDownloading

\* C5, as stated: at most one attempt is outstanding at any time.
C5_AtMostOneAttempt ==
  Cardinality({p \in Slots : Suspended(p)}) <= 1

\* C6: in getToken the popup acquisition is asked for only directly after the
\* silent acquisition of the same call failed with interaction-required; any
\* other failure of the silent acquisition ends the call with that failure,
\* no popup asked.
C6_SilentFirst ==
  \A p \in Slots :
    /\ \A i \in DOMAIN log[p] :
         log[p][i] = [op |-> "acquireTokenPopup", res |-> "call"] =>
           /\ i >= 3
           /\ log[p][i - 1] = [op |-> "acquireTokenSilent", res |-> "interaction"]
           /\ log[p][i - 2] = [op |-> "acquireTokenSilent", res |-> "call"]
    /\ Has(p, "acquireTokenSilent", "other") =>
         /\ pc[p] = "done" /\ outcome[p] = "AuthError"
         /\ ~Asked(p, "acquireTokenPopup")

\* The silent acquisition failed with an error other than interaction-
\* required and the call is over.
C6_Witness ==
  \E p \in Slots : Has(p, "acquireTokenSilent", "other") /\ pc[p] = "done"

\* How often call p has issued op.
TimesAsked(p, op) ==
  Cardinality({i \in DOMAIN log[p] : log[p][i] = [op |-> op, res |-> "call"]})

\* The revisions in which the client a call works on cannot be dropped while
\* the call waits: the client is a constant, or the guard keeps the calls apart.
ClientStays == ConstInstance \cup Guarded

\* C7: in part_005 and part_000 (and every revision whose client stays), when
\* the silent acquisition failed with interaction-required, getToken asks for
\* the popup acquisition exactly once; with its token the call goes on, with
\* its error the call ends; neither acquisition is asked for again.
C7_PopupOnce ==
  \A p \in Slots : variant \in ClientStays =>
    /\ Has(p, "acquireTokenSilent", "interaction") => TimesAsked(p, "acquireTokenPopup") = 1
    /\ TimesAsked(p, "acquireTokenPopup") <= 1
    /\ TimesAsked(p, "acquireTokenSilent") <= 1
    /\ Has(p, "acquireTokenPopup", "ok") => tok[p] = "tokenPopup"
    /\ Has(p, "acquireTokenPopup", "throw") =>
         pc[p] = "done" /\ outcome[p] = "AuthError" /\ tok[p] = ""

\* The popup acquisition was asked for after interaction-required and failed.
C7_Witness ==
  \E p \in Slots : /\ variant \in ClientStays
                    /\ Has(p, "acquireTokenSilent", "interaction")
                    /\ Has(p, "acquireTokenPopup", "throw")

\* C8: getToken opens the sign-in popup exactly when the provider had no
\* cached account, and before any silent acquisition; when the sign-in fails
\* the call ends with that failure and asks for no token, silent or popup.
C8_SignInFirst ==
  \A p \in Slots :
    /\ Asked(p, "loginPopup") <=> Has(p, "getAllAccounts", "none")
    /\ \A i, j \in DOMAIN log[p] :
         /\ log[p][i] = [op |-> "acquireTokenSilent", res |-> "call"]
         /\ log[p][j] = [op |-> "loginPopup", res |-> "call"]
         => j < i
    /\ Has(p, "loginPopup", "throw") =>
         /\ pc[p] = "done" /\ outcome[p] = "AuthError"
         /\ ~Asked(p, "acquireTokenSilent") /\ ~Asked(p, "acquireTokenPopup")

\* The provider had no cached account and the sign-in failed.
C8_Witness ==
  \E p \in Slots : /\ Has(p, "getAllAccounts", "none")
                    /\ Has(p, "loginPopup", "throw")

\* C9: initialize() completes successfully at most once, and after it has, no
\* call creates a client or starts initialize() again.
C9_Idempotent ==
  /\ [](initOk <= 1)
  /\ [][initOk >= 1 => msalInstance' = msalInstance /\ instState' = instState]_vars

\* After the one successful initialize(), a later call of initializeMsal has
\* returned early.
C9_Witness ==
  \E p \in Slots : initOk = 1 /\ pc[p] = "init_ret"

\* C10, as stated: no call performs a token operation (getAllAccounts,
\* loginPopup, acquireTokenSilent, acquireTokenPopup) on a client whose
\* initialize() has not completed successfully.
C10_InitBeforeToken ==
  \A p \in Slots : ~uninit[p]

\* Call p's log holds a request to the mail API.
MailRequests == {"req1", "req2meta", "req2mime", "req3", "search",
                 "enc1", "enc2", "enc3", "enc4"}
AskedMail(p) == \E op \in MailRequests : Asked(p, op)

\* C11, as stated: a call that got its token and read an empty message
\* identifier from the host has issued no request to the mail API, and ends
\* with the invalid-identifier error.
C11_EmptyIdRejected ==
  \A p \in Slots : tok[p] # "" /\ item[p] = "" =>
    /\ ~AskedMail(p)
    /\ pc[p] = "done" /\ outcome[p] = "InvalidIdentifier"

\* The strings of list are pairwise different.
PairwiseDistinct(list) == \A i, j \in DOMAIN list : i # j => list[i] # list[j]
\* Every character of string is in set.
Only(string, set) == \A i \in DOMAIN string : string[i] \in set
Hex == {HexDigits[i] : i \in DOMAIN HexDigits}

\* C12, as stated: every non-empty identifier yields exactly 4 pairwise
\* distinct strings.
C12_AsStated ==
  stage = "out" /\ variant = "part_002" =>
    ~output.threw /\ Len(output.list) = 4 /\ PairwiseDistinct(output.list)

\* C12, amended: every non-empty identifier of Latin-1 characters yields
\* exactly 4 strings in the fixed order identity, URI-component-escaped (no
\* character but unreserved ones and %XX), full-URI-escaped (reserved
\* characters kept), URL-safe base64 (no "+", "/", "="); the strings need not
\* be different: the first two are equal exactly when the identifier has
\* only unreserved characters, the first and the third exactly when it has
\* only unreserved and reserved ones.  An identifier with a character beyond
\* Latin-1 yields no strings: btoa raises.
C12_FourInOrder ==
  stage = "out" /\ variant = "part_002" =>
    IF Latin1(input)
      THEN /\ ~output.threw /\ Len(output.list) = 4
           /\ output.list[1] = input
           /\ Only(output.list[2], Unreserved \cup {"%"} \cup Hex)
           /\ Only(output.list[3], Unreserved \cup ReservedKept \cup {"%"} \cup Hex)
           /\ Only(output.list[4], {Base64Alphabet[i] : i \in 1..62} \cup {"-", "_"})
           /\ output.list[2] = input <=> Only(input, Unreserved)
           /\ output.list[3] = input <=> Only(input, Unreserved \cup ReservedKept)
      ELSE output.threw

\* An identifier whose four encodings are pairwise different was encoded.
C12_Witness ==
  /\ stage = "out" /\ variant = "part_002" /\ ~output.threw
  /\ Len(output.list) = 4 /\ PairwiseDistinct(output.list)

----------------------------------------------------------------------------
\* Method 3 with the record it receives (part_005 lines 150-176): the reply
\* of the third request is parsed, createEmlFromJson builds the text and the
\* text, as a Blob, is the payload ("eml3").  An exception of
\* createEmlFromJson lands in the catch of Method 3 like one of json().

\* The record of the message in the pane, as the service returns it.
ExampleMessage ==
  [receivedDateTime |-> <<<<"2024-01-02T03:04:05Z">>>>,
   sender |-> <<[emailAddress |-> <<[name |-> <<>>, address |-> <<<<"a@x.com">>>>]>>]>>,
   toRecipients |-> <<>>, ccRecipients |-> <<>>, bccRecipients |-> <<>>,
   subject |-> <<<<"Hi">>>>,
   body |-> <<[content |-> <<<<"hello">>>>, contentType |-> <<<<"text">>>>]>>]

Replies ==
  {ExampleMessage,
   [ExampleMessage EXCEPT
      !.sender = <<[emailAddress |-> <<[name |-> <<<<"Ann">>>>, address |-> <<<<"a@x.com">>>>]>>]>>,
      !.body = <<[content |-> <<<<"hello">>>>, contentType |-> <<<<"html">>>>]>>],
   [ExampleMessage EXCEPT !.toRecipients = <<<<[emailAddress |-> <<>>]>>>>]}

\* Method 3: fullResponse.json() settled with the record m.
s3Record(s, p, o, d, m) ==
  IF o = "ok" /\ createEmlFromJson(m).threw
    THEN throwAllFailed(Con(Con(s, p, "Got full message data"), p, "Method 3 error"), p)
    ELSE s3Json(s, p, o, d)

S3RecordSettled ==
  \E p \in Slots, o \in Settled, d \in DeliveryOutcomes(variant) :
    /\ At(p, "s3_json") /\ stage \in {"in", "out"}
    /\ ApplyPage(s3Record(Ret(Now, p, "json3", o), p, o, d, input))
    /\ IF o = "ok" THEN stage' = "out" /\ output' = createEmlFromJson(input)
                   ELSE UNCHANGED <<stage, output>>
    /\ UNCHANGED input

InitMethod3 ==
  /\ PageInit /\ variant = "part_005"
  /\ stage = "in" /\ input \in Replies /\ output = <<>>

NextMethod3 ==
  \/ DomContentLoaded \/ OfficeReady
  \/ AutoStart \/ Click \/ RevokeTimerFire
  \/ InitSettled \/ InitReturned
  \/ LoginSettled \/ SilentSettled \/ PopupSettled
  \/ S1FetchSettled \/ S1BlobSettled \/ S1TextSettled \/ Delay1Elapsed
  \/ S2MetaSettled \/ S2JsonSettled \/ S2MimeSettled \/ S2BlobSettled
  \/ Delay2Elapsed \/ S3FetchSettled \/ S3RecordSettled \/ S3TextSettled

SpecMethod3 == InitMethod3 /\ [][NextMethod3]_vars

----------------------------------------------------------------------------
\* The file name of the download, computed from the subject of the item
\* (part_005 lines 286-287; part_002 lines 289-296).  A subject is a sequence
\* of characters here, <<>> around it when the item has one.

\* Longest subject tried.
MaxSubjectLen == 4

SubjectChars == {"a", "/", "\\", "<", ".", "e", "m", "l", "E"}
Forbidden == {"/", "\\", "?", "%", "*", ":", "|", "\"", "<", ">"}
DotEml == <<".", "e", "m", "l">>

toLowerCase(s) ==
  [i \in DOMAIN s |-> CASE s[i] = "E" -> "e" [] s[i] = "M" -> "m"
                         [] s[i] = "L" -> "l" [] OTHER -> s[i]]

endsWith(s, e) == Len(s) >= Len(e) /\ SubSeq(s, Len(s) - Len(e) + 1, Len(s)) = e

\* A faulty sanitize that replaces the slash alone.
sanitizeSlash(s) == [i \in DOMAIN s |-> IF s[i] = "/" THEN "-" ELSE s[i]]

\* subject.replace(/[/\\?%*:|"<>]/g, '-')
sanitize(s) == [i \in DOMAIN s |-> IF s[i] \in Forbidden THEN "-" ELSE s[i]]

filenameOf(v, itemSubject) ==
  LET subject == OrElse(itemSubject, <<"e", "m", "a", "i", "l">>)
      filename == sanitize(subject)
  IN IF v = "part_002" /\ endsWith(toLowerCase(filename), DotEml)
       THEN filename
       ELSE filename \o DotEml

ItemSubjects ==
  {<<>>} \cup {<<s>> : s \in UNION {[1..k -> SubjectChars] : k \in 0..MaxSubjectLen}}

InitFilename ==
  /\ PageInit /\ variant \in {"part_005", "part_002"} /\ hasAccount = FALSE
  /\ stage = "in" /\ input \in ItemSubjects /\ output = <<>>

BuildFilename ==
  /\ stage = "in" /\ variant \in {"part_005", "part_002"}
  /\ stage' = "out" /\ output' = filenameOf(variant, input)
  /\ UNCHANGED <<pageVars, input>>

SpecFilename == InitFilename /\ [][BuildFilename]_vars

----------------------------------------------------------------------------
\* The text of createEmlFromJson, read back line by line.

\* The pieces of s before its first line break.
RECURSIVE FirstLine(_)
FirstLine(s) ==
  IF s = <<>> \/ s[1] = CRLF THEN <<>> ELSE <<s[1]>> \o FirstLine(Tail(s))

\* The header block: the lines of s before the first empty line.
RECURSIVE HeaderLines(_)
HeaderLines(s) ==
  LET l == FirstLine(s)
  IN IF l = <<>> \/ Len(l) >= Len(s) THEN <<>>
     ELSE <<l>> \o HeaderLines(SubSeq(s, Len(l) + 2, Len(s)))

\* What follows the empty line that ends the header block.
RECURSIVE AfterHeaders(_)
AfterHeaders(s) ==
  LET l == FirstLine(s)
  IN IF s = <<>> THEN <<>>
     ELSE IF l = <<>> THEN Tail(s)
     ELSE IF Len(l) >= Len(s) THEN <<>>
     ELSE AfterHeaders(SubSeq(s, Len(l) + 2, Len(s)))

NamesOf(ls) == [i \in DOMAIN ls |-> ls[i][1]]
LinesNamed(ls, n) == {i \in DOMAIN ls : ls[i][1] = n}
NoList(l) == l = <<>> \/ l = <<<<>>>>
Built == stage = "out" /\ variant = "part_005" /\ output.threw = FALSE

\* C13: createEmlFromJson writes no To, Cc or Bcc line for a recipient list
\* that is empty or missing, and the header block has exactly one Subject
\* line, holding the record's subject or "(No Subject)".
C13_OneSubjectLine ==
  Built =>
    LET h == HeaderLines(output.eml)
    IN /\ NoList(input.toRecipients) => LinesNamed(h, "To: ") = {}
       /\ NoList(input.ccRecipients) => LinesNamed(h, "Cc: ") = {}
       /\ NoList(input.bccRecipients) => LinesNamed(h, "Bcc: ") = {}
       /\ Cardinality(LinesNamed(h, "Subject: ")) = 1
       /\ \A i \in LinesNamed(h, "Subject: ") :
            h[i] = <<"Subject: ">> \o OrElse(input.subject, <<"(No Subject)">>)

Member(s, x) == \E i \in DOMAIN s : s[i] = x

\* C14: createEmlFromJson never throws, and a missing field (sender,
\* recipient name or address, body, timestamp, a recipient entry without
\* emailAddress) is written as an empty string or a default, never as the
\* text "undefined".
C14_NeverThrows ==
  stage = "out" /\ variant = "part_005" =>
    /\ output.threw = FALSE
    /\ ~Member(output.eml, "undefined")

Present(name, value) == IF value = <<>> THEN <<>> ELSE <<name>>
RECURSIVE Size(_)
Size(ls) == IF ls = <<>> THEN 0 ELSE Len(ls[1]) + 1 + Size(Tail(ls))

\* C15: the text of createEmlFromJson is, in this order and each ended by
\* CRLF, the lines Date, From, To, Cc, Bcc (each of the three only when it has
\* a value), Subject, MIME-Version, Content-Type, Content-Transfer-Encoding,
\* then an empty line, then the body as it is; there is no other header line.
C15_LineOrder ==
  Built =>
    LET h == HeaderLines(output.eml)
        body == IF input.body = <<>> THEN <<>> ELSE OrElse(input.body[1].content, <<>>)
    IN /\ NamesOf(h) = <<"Date: ", "From: ">>
                         \o Present("To: ", recipientsText(input.toRecipients))
                         \o Present("Cc: ", recipientsText(input.ccRecipients))
                         \o Present("Bcc: ", recipientsText(input.bccRecipients))
                         \o <<"Subject: ", "MIME-Version: ", "Content-Type: ",
                              "Content-Transfer-Encoding: ">>
       /\ Len(output.eml) = Size(h) + 1 + Len(body)
       /\ output.eml[Size(h) + 1] = CRLF
       /\ AfterHeaders(output.eml) = body

Contains(s, sub) ==
  \E i \in 0..(Len(s) - Len(sub)) : SubSeq(s, i + 1, i + Len(sub)) = sub

\* The values a record holds: each a text that is there and not empty.
ValuesOf(m) ==
  LET OfAddress(e) == IF e = <<>> THEN {} ELSE {e[1].name, e[1].address}
      OfList(l) == IF l = <<>> THEN {}
                   ELSE UNION {OfAddress(l[1][i].emailAddress) : i \in DOMAIN l[1]}
      all == {m.receivedDateTime, m.subject}
               \cup (IF m.sender = <<>> THEN {} ELSE OfAddress(m.sender[1].emailAddress))
               \cup OfList(m.toRecipients) \cup OfList(m.ccRecipients)
               \cup OfList(m.bccRecipients)
               \cup (IF m.body = <<>> THEN {} ELSE {m.body[1].content})
  IN {v[1] : v \in {x \in all : x # <<>> /\ x[1] # <<>>}}

\* Reading a Date line back: the timestamp of the instant it names.
fromUTCString(d) ==
  IF d = <<"Tue, 02 Jan 2024 03:04:05 GMT">> THEN <<<<"2024-01-02T03:04:05Z">>>> ELSE <<>>

ValueOf(ls, n) == {Tail(ls[i]) : i \in LinesNamed(ls, n)}

NoBreaks(m) == \A v \in ValuesOf(m) : ~Member(v, CRLF)

Delivered(p) == outcome[p] = "ok" /\ (saved[p] \/ link[p] = "status")

\* C18: when Method 1 succeeds with the bytes B, what is delivered has B as
\* its content and goes by the name computed from the subject (filename),
\* whichever way it is delivered.
C18_NamedOnEveryPath ==
  \A p \in Slots :
    variant \in ThreeStrategy /\ Has(p, "blob1", "ok") /\ Delivered(p) =>
        /\ payload[p] = "mime1"
        /\ named[p] = "filename"

\* Methods 1 and 2 of call p got a status other than success, and the reply
\* of Method 3 was parsed.
OnlyMethod3(p) ==
  /\ Has(p, "req1", "bad")
  /\ Has(p, "req2meta", "bad") \/ Has(p, "req2mime", "bad")
  /\ Has(p, "json3", "ok")

\* C19: when Methods 1 and 2 get a status other than success and Method 3
\* gets the record, the payload that is delivered is the text
\* createEmlFromJson builds from that record; for the record with sender
\* a@x.com without a name, subject "Hi" and the text body "hello", its header
\* block has the lines "From: a@x.com", "Subject: Hi" and
\* "Content-Type: text/plain; charset=utf-8", and its body is "hello".  When
\* createEmlFromJson raises, nothing is delivered.
C19_Method3Payload ==
  \A p \in Slots :
    variant = "part_005" /\ OnlyMethod3(p) /\ pc[p] = "done" =>
      IF createEmlFromJson(input).threw
        THEN outcome[p] = "FetchExhausted" /\ ~Delivered(p) /\ payload[p] = ""
        ELSE /\ outcome[p] \in {"ok", "DeliveryError"}
             /\ outcome[p] = "DeliveryError" => ~Delivered(p)
             /\ payload[p] = "eml3"
             /\ stage = "out" /\ output = createEmlFromJson(input)
             /\ input = ExampleMessage =>
                  LET h == HeaderLines(output.eml)
                  IN /\ \E i \in DOMAIN h : h[i] = <<"From: ", "a@x.com">>
                     /\ \E i \in DOMAIN h : h[i] = <<"Subject: ", "Hi">>
                     /\ \E i \in DOMAIN h :
                          h[i] = <<"Content-Type: ", "text/plain", "; charset=utf-8">>
                     /\ AfterHeaders(output.eml) = <<"hello">>

C19_Witness ==
  \E p \in Slots :
    /\ variant = "part_005" /\ OnlyMethod3(p) /\ Delivered(p)
    /\ input = ExampleMessage /\ payload[p] = "eml3"
    /\ Contains(output.eml, <<"From: ", "a@x.com", CRLF>>)

\* An object URL of slot p is revoked in this step.
Revoking(p) ==
  \E k \in DOMAIN urls'[p] :
    urls'[p][k] = "revoked" /\ (k \notin DOMAIN urls[p] \/ urls[p][k] # "revoked")

\* In the calls l every revokeObjectURL comes after a click or a window.open.
HandedOverFirst(l) ==
  \A j \in DOMAIN l :
    l[j].op = "revokeObjectURL" => \E i \in 1..(j - 1) : l[i].op \in {"click", "open"}

\* The revocation is made by the call itself, after its click.
RevokedInCall(p) ==
  /\ pc[p] \notin {"idle", "done"}
  /\ \E j \in DOMAIN log'[p] : log'[p][j].op = "revokeObjectURL"
  /\ HandedOverFirst(log'[p])

\* The revocation is made by the cleanup timer the delivery armed after it
\* called click or window.open.
RevokedByTimer(p) ==
  /\ revokeTimer[p] # 0 /\ revokeTimer'[p] = 0
  /\ urls[p][revokeTimer[p]] = "live"
  /\ saved[p] \/ link[p] # "none"

\* C20: the object URL is never revoked before the save is initiated (the
\* click or the window.open), and it is revoked while the delivery attempt is
\* still running, not after the attempt has ended.
C20_AsStated ==
  [][\A p \in Slots :
       Revoking(p) => /\ RevokedInCall(p) \/ RevokedByTimer(p)
                      /\ pc[p] \notin {"idle", "done"}]_vars

\* C20, as the code has it: the object URL is never revoked before click or
\* window.open was called.  part_001 revokes it in the call itself, right
\* after the click; part_002 and part_005 arm a timer in triggerDownload and
\* the URL is revoked when the timer fires, after downloadEmailAsEml has
\* returned.  A timer that fires without revoking is part_002's, when the
\* link is no longer in the body: that URL stays live.
C20_RevokedAfterHandOver ==
  [][\A p \in Slots :
       /\ Revoking(p) =>
            IF variant = "part_001"
              THEN RevokedInCall(p) /\ pc'[p] = "done"
              ELSE RevokedByTimer(p) /\ pc[p] \in {"idle", "done"}
       /\ HandedOverFirst(log'[p])
       /\ revokeTimer'[p] # 0 => saved'[p] \/ link'[p] # "none"
       /\ revokeTimer[p] # 0 /\ revokeTimer'[p] = 0 /\ ~Revoking(p)
            => variant = "part_002" /\ link[p] # "body"]_vars

C20_Witness ==
  \E p \in Slots :
    /\ variant = "part_005" /\ saved[p] /\ urls[p] = <<"revoked">>
    /\ revokeTimer[p] = 0 /\ pc[p] \in {"idle", "done"}

\* Call p is under way: downloadEmailAsEml has passed the guard and has not
\* returned.
Running(p) == pc[p] \notin {"idle", "done"}

\* C21: when every external call settles, a download attempt that has
\* started ends, and when it has ended isDownloading is false and the button
\* is enabled.
C21_AttemptEnds ==
  (\E p \in Slots : Running(p))
    ~> (\A p \in Slots : ~Running(p) /\ ~isDownloading /\ ~btnDisabled)

C21_Witness ==
  \E p \in Slots :
    /\ variant \in {"part_002", "part_005"}
    /\ pc[p] = "done" /\ outcome[p] = "FetchExhausted"
    /\ ~isDownloading /\ ~btnDisabled

\* Call p has ended in the catch block of downloadEmailAsEml.
Failed(p) == pc[p] = "done" /\ outcome[p] \notin {"ok", "rejected"}

\* A step from a state in which a call has failed, after which a call is
\* under way or has asked something of the provider or of the mail service.
AsksAfterFailure ==
  /\ variant \in ThreeStrategy
  /\ \E p \in Slots : Failed(p)
  /\ \E q \in Slots : Running(q)' \/ (log'[q] # <<>> /\ log'[q] # log[q])

\* A step taken from a state in which a call has failed: something is asked
\* only by a click or the start timer, and the start timer is armed by
\* Office.onReady alone.
StepAfterFailure ==
  variant \in ThreeStrategy /\ (\E p \in Slots : Failed(p)) =>
    /\ AsksAfterFailure => Click \/ AutoStart
    /\ autoTimer' => autoTimer \/ OfficeReady

\* C22: a failure ends the attempt: the button is enabled with
\* downloadEmailAsEml as its handler, and nothing more is asked of the
\* provider or of the mail service until the user starts the next attempt
\* with a click.
C22_AsStated ==
  /\ [](\A p \in Slots :
          variant \in ThreeStrategy /\ Failed(p) =>
            ~btnDisabled /\ btnOnclick = "download")
  /\ [][AsksAfterFailure => Click]_vars

\* C22, as the code has it: a failure ends the attempt: the button is enabled
\* with downloadEmailAsEml as its handler, and nothing more is asked of the
\* provider or of the mail service until downloadEmailAsEml is started again,
\* by a click or by the start timer Office.onReady arms once (a failure arms
\* no timer).
C22_FailureIsTerminal ==
  /\ [](\A p \in Slots :
          variant \in ThreeStrategy /\ Failed(p) =>
            /\ ~btnDisabled /\ btnOnclick = "download"
            /\ \A q \in Slots : ~Running(q))
  /\ [][StepAfterFailure]_vars

C22_Witness ==
  \E p \in Slots :
    /\ variant = "docsB" /\ Failed(p) /\ outcome[p] = "InvalidIdentifier"
    /\ ~btnDisabled /\ btnOnclick = "download"

----------------------------------------------------------------------------
\* The credential of the mail requests (part_005 lines 85-178, 272-282;
\* part_002 lines 136-179).

TokenOps == {"acquireTokenSilent", "acquireTokenPopup"}

\* The token getToken returned to call p, read from the call's log.
TokenReturned(p) ==
  IF Has(p, "acquireTokenPopup", "ok") THEN "tokenPopup"
  ELSE IF Has(p, "acquireTokenSilent", "ok") THEN "tokenSilent"
  ELSE ""

\* Entry i of call p's log is a request to the mail API.
IsMailRequest(p, i) == log[p][i].res = "call" /\ log[p][i].op \in MailRequests

\* C23: a call issues no request to the mail API before its getToken returned
\* a token, and every request to the mail API it issues (binary fetch,
\* metadata lookup, structured fetch, subject search) carries exactly that
\* token as bearer credential.
C23_BearerIsTheToken ==
  \A p \in Slots :
    /\ \A i \in DOMAIN log[p] :
         IsMailRequest(p, i) =>
           \E j \in 1..(i - 1) : log[p][j].op \in TokenOps /\ log[p][j].res = "ok"
    /\ AskedMail(p) => TokenReturned(p) # "" /\ bearer[p] = {TokenReturned(p)}
    /\ ~AskedMail(p) => bearer[p] = {}

C23_Witness ==
  \E p \in Slots :
    /\ variant = "part_005"
    /\ Asked(p, "req1") /\ Asked(p, "req2meta") /\ Asked(p, "req2mime") /\ Asked(p, "req3")
    /\ bearer[p] = {"tokenPopup"}

----------------------------------------------------------------------------
\* The catch block of downloadEmailAsEml in part_004 (lines 145-157): the text
\* shown for an error.  A text is a sequence of characters; the fixed prefix
\* of the HTTP error is one piece, having no digit in it.

\* Longest status text, or message of another error, tried.
MaxTextLen == 3

TextChars == {"0", "1", "3", "4", "5", "K"}
ErrorTexts == UNION {[1..k -> TextChars] : k \in 0..MaxTextLen}
StatusCodes == {<<"4", "0", "0">>, <<"4", "0", "1">>, <<"4", "0", "3">>,
                <<"4", "0", "4">>, <<"5", "0", "0">>, <<"5", "0", "3">>}

\* String.prototype.includes
includes(m, w) ==
  \E i \in 1..(Len(m) - Len(w) + 1) : SubSeq(m, i, i + Len(w) - 1) = w

\* The message of the error the catch block receives: line 116 for a response
\* that is not ok, the text of the rejection otherwise.
errorMessage(e) ==
  IF e.http THEN <<"Graph API error: ">> \o e.status \o <<" ">> \o e.text
  ELSE e.text

\* Lines 147-155: the guidance shown.
guidanceOf(message) ==
  IF includes(message, <<"5", "0", "3">>) THEN "unavailable"
  ELSE IF includes(message, <<"4", "0", "4">>) THEN "notFound"
  ELSE IF includes(message, <<"4", "0", "1">>) \/ includes(message, <<"4", "0", "3">>)
    THEN "authentication"
  ELSE "generic"

Errors ==
  [http : {TRUE}, status : StatusCodes, text : ErrorTexts]
    \cup [http : {FALSE}, status : {<<>>}, text : ErrorTexts]

InitCatch ==
  /\ PageInit /\ variant = "part_004" /\ hasAccount = FALSE
  /\ stage = "in" /\ input \in Errors /\ output = <<>>

CatchError ==
  /\ stage = "in" /\ variant = "part_004"
  /\ stage' = "out"
  /\ output' = <<"error", guidanceOf(errorMessage(input))>>
  /\ UNCHANGED <<pageVars, input>>

SpecCatch == InitCatch /\ [][CatchError]_vars

\* The guidance that belongs to a status code.
GuidanceByStatus(e) ==
  IF ~e.http THEN "generic"
  ELSE IF e.status \in {<<"4", "0", "1">>, <<"4", "0", "3">>} THEN "authentication"
  ELSE IF e.status = <<"4", "0", "4">> THEN "notFound"
  ELSE IF e.status = <<"5", "0", "3">> THEN "unavailable"
  ELSE "generic"

\* C24: the text shown for a failure is chosen by the status code of the
\* response: 401 or 403 the authentication guidance, 404 the refresh guidance,
\* 503 the retry guidance, and any other status, or a failure that is not an
\* HTTP one, the generic text, whatever else the error message contains.
C24_ByStatusCode ==
  stage = "out" => output = <<"error", GuidanceByStatus(input)>>

----------------------------------------------------------------------------
\* What a failed call leaves behind (part_005 lines 242-325; part_002 lines
\* 251-333).

\* An object URL call p created is still live.
LiveUrl(p) == \E i \in DOMAIN urls[p] : urls[p][i] = "live"

\* A step in which a call passes the isDownloading guard.
AttemptStarts == \E p \in Slots : ~Running(p) /\ Running(p)'

\* The button as every attempt finds it.
ButtonAtStart == AttemptStarts => ~btnDisabled /\ btnOnclick = "download"

\* The shared state a failed call p leaves, the button as it was at the start.
LeftAsBefore(p) ==
  /\ ~isDownloading
  /\ ~btnDisabled /\ btnOnclick = "download"
  /\ revokeTimer[p] = 0

\* C25: after a failed attempt the shared state is what it was before the
\* attempt, the credential provider apart: isDownloading is false, no object
\* URL is left unrevoked, no timer of the attempt is pending, and the button
\* is enabled and has the click handler it had before the attempt.
C25_NothingSurvives ==
  /\ [][ButtonAtStart]_vars
  /\ [](\A p \in Slots : Failed(p) => LeftAsBefore(p) /\ ~LiveUrl(p))

----------------------------------------------------------------------------
\* Method 2 (part_005 lines 113-148).

\* C26: Method 2 issues its MIME request only after the metadata lookup
\* succeeded, and under the identifier of the metadata (metadata.id), not the
\* caller's; when the metadata lookup fails the call issues no MIME request
\* of Method 2 and goes on to Method 3.
C26_MetadataFirst ==
  \A p \in Slots :
    /\ Asked(p, "req2mime") => Has(p, "req2meta", "ok") /\ Has(p, "json2", "ok")
    /\ pc[p] = "s2_mime" => method2[p] # <<>> /\ method2[p][2] = method2[p][1]
    /\ Has(p, "req2meta", "bad") \/ Has(p, "req2meta", "throw") \/ Has(p, "json2", "throw") =>
         /\ ~Asked(p, "req2mime")
         /\ pc[p] = "delay2" \/ Asked(p, "req3")

C26_Witness ==
  \E p \in Slots :
    /\ variant = "part_005" /\ pc[p] = "s2_mime"
    /\ Has(p, "req2meta", "ok") /\ Asked(p, "req2mime")
    /\ method2[p] = <<"idRest", "idRest">> /\ item[p] = "id"

----------------------------------------------------------------------------
\* The course of the encoding trial (part_002 lines 95-134; docs/taskpane.js
\* lines 95-134).

TrialOps == {"enc1", "enc2", "enc3", "enc4", "delay", "search"}
IsTrialCall(e) == e.res = "call" /\ e.op \in TrialOps

\* The requests and pauses of call p's encoding trial, in the order made.
Trial(p) ==
  LET calls == SelectSeq(log[p], IsTrialCall)
  IN [i \in DOMAIN calls |-> calls[i].op]

\* The full course: every encoding fails, then the search.
TrialCourse ==
  <<"enc1", "delay", "enc2", "delay", "enc3", "delay", "enc4", "delay", "search">>

\* A step of call p away from the body read of a response with success status.
AfterSuccessStatus(p) == pc[p] = "enc_json" /\ pc'[p] # "enc_json"

\* C27, as stated: the first encoding whose request comes back with success
\* ends the trial: no pause and no later encoding follow it.
EndsAtSuccessStatus ==
  \A p \in Slots : variant \in EncodingTrial /\ AfterSuccessStatus(p) =>
    pc'[p] = "done" /\ Trial(p)' = Trial(p)

C27_AsStated ==
  /\ [](\A p \in Slots : variant \in EncodingTrial => IsPrefix(Trial(p), TrialCourse))
  /\ [][EndsAtSuccessStatus]_vars

\* After a success status either the record was read and the trial is over
\* with no further request, or the read failed, which is entered as the
\* failure of this encoding and followed by the pause.
EndsWhenRead ==
  \A p \in Slots : variant \in EncodingTrial /\ AfterSuccessStatus(p) =>
    \/ pc'[p] = "done" /\ Trial(p)' = Trial(p)
    \/ /\ pc'[p] = "enc_delay"
       /\ details'[p] = Append(details[p], [method |-> idx[p], kind |-> "error"])
       /\ Trial(p)' = Append(Trial(p), "delay")

\* What the trial of call p has done when it is at encoding idx[p].
InOrder(p) ==
  /\ IsPrefix(Trial(p), TrialCourse)
  /\ pc[p] \in {"enc_fetch", "enc_json", "enc_text"} =>
       /\ Len(Trial(p)) = 2 * idx[p] - 1
       /\ Len(details[p]) = idx[p] - 1
  /\ pc[p] = "enc_delay" => Len(Trial(p)) = 2 * idx[p] /\ Len(details[p]) = idx[p]
  /\ payload[p] = "emlEnc" => Len(Trial(p)) = 2 * idx[p] - 1

\* C27, amended: the encodings are requested in the order identity,
\* URI-component, full-URI, URL-safe-base64, one request each; an encoding
\* whose request fails, or whose record cannot be read after a success
\* status, is followed by the pause and then the next encoding; the first
\* encoding whose record is read ends the trial, no pause or request after it.
C27_FirstReadEnds ==
  /\ [](\A p \in Slots : variant \in EncodingTrial => InOrder(p))
  /\ [][EndsWhenRead]_vars

C27_Witness ==
  \E p \in Slots :
    /\ variant = "part_002" /\ pc[p] = "done" /\ payload[p] = "emlEnc"
    /\ idx[p] = 3 /\ Trial(p) = <<"enc1", "delay", "enc2", "delay", "enc3">>

\* C28: the encodings are produced one by one as they are needed: for an
\* identifier the URL-safe-base64 transform rejects, the earlier encodings
\* are requested all the same, and the call fails with that rejection only
\* after the first three encodings were requested and failed.
C28_EarlierStillTried ==
  \A p \in Slots :
    variant \in EncodingTrial /\ item[p] = "nonLatin1" /\ pc[p] = "done" =>
      /\ Asked(p, "enc1")
      /\ outcome[p] = "InvalidCharacterError" =>
           Trial(p) = <<"enc1", "delay", "enc2", "delay", "enc3", "delay">>

\* The entries the trials of revision v leave when all of them fail: the
\* four encodings, then (part_002) the search.
TrialsOf(v) == IF v = "part_002" THEN <<1, 2, 3, 4, 0>> ELSE <<1, 2, 3, 4>>

Searches(p) == Len(SelectSeq(Trial(p), LAMBDA op : op = "search"))

\* C30: the search request is issued only after all four encodings have
\* failed, at most once in a call, and only when the host has both the subject
\* and the sender address of the message; when one of them is missing no
\* search request is issued and the call fails with an entry that says so.
C30_SearchLast ==
  \A p \in Slots : variant = "part_002" =>
    /\ Searches(p) <= 1
    /\ Asked(p, "search") =>
         /\ Trial(p) = TrialCourse
         /\ Len(details[p]) >= 4
         /\ \A i \in 1..4 : details[p][i].method = i
         /\ Has(p, "subject", "some") /\ Has(p, "from", "some")
    /\ Has(p, "subject", "none") \/ Has(p, "from", "none") =>
         /\ ~Asked(p, "search")
         /\ pc[p] = "done" /\ outcome[p] = "FetchExhausted"
         /\ Len(errEntries[p]) = 5
         /\ errEntries[p][5] = [method |-> 0, kind |-> "missing"]

C30_Witness ==
  \E p \in Slots :
    /\ variant = "part_002" /\ pc[p] = "done" /\ outcome[p] = "FetchExhausted"
    /\ Has(p, "subject", "some") /\ Has(p, "from", "none")
    /\ ~Asked(p, "search")
    /\ errEntries[p][5] = [method |-> 0, kind |-> "missing"]

----------------------------------------------------------------------------
\* The requests of one call (part_005 lines 85-178; part_002 lines 85-184).

\* The characters of the identifiers the host and the service supply.
CharsOf(id) ==
  CASE id = "id" -> <<"A", "/">>
    [] id = "idRest" -> <<"A", "=">>
    [] id = "nonLatin1" -> <<"U+20AC">>
    [] OTHER -> <<>>

\* The mail requests call p has issued, in order.
MailCalls(p) ==
  LET calls == SelectSeq(log[p], LAMBDA e : e.res = "call" /\ e.op \in MailRequests)
  IN [i \in DOMAIN calls |-> calls[i].op]

\* The URL of request op of call p: the resource and the identifier in the
\* path.  Method 2's MIME request has metadata.id there, which is known while
\* the request is pending.
UrlOf(p, op) ==
  LET graphItemId == encodeURIComponent(CharsOf(item[p]))
  IN CASE op = "req1" -> <<<<"$value">>, graphItemId>>
       [] op = "req2meta" -> <<<<"message">>, graphItemId>>
       [] op = "req2mime" ->
            <<<<"$value">>, IF method2[p] = <<>> THEN <<"metadata.id">>
                                                 ELSE CharsOf(method2[p][2])>>
       [] op = "req3" -> <<<<"$select">>, graphItemId>>
       [] op = "search" -> <<<<"$search">>, <<>>>>
       [] OTHER ->
            LET i == CHOOSE k \in DOMAIN EncodingRequests : EncodingRequests[k] = op
            IN <<<<"$select">>, candidateEncodings(CharsOf(item[p])).list[i]>>

\* The most requests a call of revision v issues.
MaxRequests(v) == IF v = "part_002" THEN 5 ELSE 4

\* Call p has issued no more requests than its revision allows, each of its
\* strategies or encodings at most once.
Bounded(p) ==
  /\ Len(MailCalls(p)) <= MaxRequests(variant)
  /\ \A i, j \in DOMAIN MailCalls(p) : i # j => MailCalls(p)[i] # MailCalls(p)[j]

\* C31, as stated: a call issues at most 4 mail requests in the
\* three-strategy fetcher and at most 5 in the encoding trial, and no request
\* is issued twice in a call.
C31_AsStated ==
  \A p \in Slots : variant \in Guarded =>
    /\ Bounded(p)
    /\ \A i, j \in DOMAIN MailCalls(p) :
         i # j => UrlOf(p, MailCalls(p)[i]) # UrlOf(p, MailCalls(p)[j])

\* C31, amended: a call issues at most 4 mail requests in the three-strategy
\* fetcher (one for Method 1, two for Method 2, one for Method 3) and at most
\* 5 in the encoding trial (four encodings and, in part_002, the search), each
\* strategy and each encoding at most once; two encodings of an identifier
\* can be the same text, so the same URL can be requested more than once.
C31_BoundedRequests ==
  \A p \in Slots : variant \in Guarded =>
    /\ Bounded(p)
    /\ variant \in ThreeStrategy =>
         \A i, j \in DOMAIN MailCalls(p) :
           i # j => UrlOf(p, MailCalls(p)[i]) # UrlOf(p, MailCalls(p)[j])
    /\ variant \in EncodingTrial /\ Asked(p, "enc3") =>
         UrlOf(p, "enc3") = UrlOf(p, "enc1") /\ UrlOf(p, "enc2") # UrlOf(p, "enc1")

C31_Witness ==
  \E p \in Slots :
    /\ variant = "part_002" /\ pc[p] = "done"
    /\ MailCalls(p) = <<"enc1", "enc2", "enc3", "enc4", "search">>

----------------------------------------------------------------------------
\* The guard of downloadEmailAsEml (part_005 lines 242-249; docs/taskpane.js
\* lines 203-210).

\* downloadEmailAsEml is called while isDownloading is set.
TurnedAway == (Click \/ AutoStart) /\ variant \in Guarded /\ isDownloading

\* The step changes nothing but the position of the call that was turned
\* away, which has asked for nothing.
NothingTouched ==
  /\ isDownloading'
  /\ statusClass' = statusClass
  /\ btnDisabled' = btnDisabled /\ btnOnclick' = btnOnclick
  /\ msalInstance' = msalInstance /\ instState' = instState
  /\ isInitialized' = isInitialized /\ hasAccount' = hasAccount
  /\ \A q \in Slots :
       IF Running(q)
         THEN pc'[q] = pc[q] /\ log'[q] = log[q] /\ bearer'[q] = bearer[q]
         ELSE ~Running(q)' /\ log'[q] = <<>> /\ bearer'[q] = {}
  /\ \E q \in Slots : pc'[q] = "done" /\ outcome'[q] = "rejected"

TurnedAwayStep == TurnedAway => NothingTouched

\* C32: a call of downloadEmailAsEml made while an attempt is in progress
\* returns at once and changes nothing: isDownloading stays true, status and
\* button are as they were, and the call asks for no initialization, no token
\* and no mail.
C32_GuardLeavesAll == [][TurnedAwayStep]_vars

C32_Witness ==
  \E p, q \in Slots :
    /\ variant = "part_005" /\ Running(p) /\ isDownloading
    /\ pc[p] = "s2_mime"
    /\ pc[q] = "done" /\ outcome[q] = "rejected" /\ log[q] = <<>>

----------------------------------------------------------------------------
\* Concurrent callers of initializeMsal (part_001 lines 15-31, 53-61;
\* part_004 lines 15-31; part_000 lines 18-32).

\* C33: whatever the interleaving of the callers, no call performs a token
\* operation on a client whose initialize() has not completed successfully,
\* and no call finds the client gone (null) because another caller's
\* initialization failed.
C33_NoCallerOnUnreadyClient ==
  \A p \in Slots : variant \in {"part_000", "part_001", "part_004"} =>
    /\ ~uninit[p]
    /\ outcome[p] \notin {"TypeError", "NotInitialized"}

----------------------------------------------------------------------------
\* A failed initializeMsal (part_005 lines 17-30; part_000 lines 18-32).

ResetForms == {"part_000", "part_005"}

\* The stored client is in its uninitialized state.
ClientReset ==
  IF variant = "part_000" THEN ~isInitialized ELSE msalInstance = 0

\* A step in which the initialize() of some call is rejected.
InitFails == \E p \in Slots : pc[p] = "init_wait" /\ outcome'[p] = "InitError"

\* Such a step leaves the client reset, and isInitialized as it was.
FailureResets ==
  variant \in ResetForms /\ InitFails =>
    /\ isInitialized' = isInitialized
    /\ variant = "part_005" => msalInstance' = 0

\* A call that starts while the client is reset creates (part_005) and
\* initializes the client anew.
StartsAnew ==
  variant \in ResetForms /\ (Click \/ AutoStart) /\ ClientReset /\ ~isDownloading =>
    \E q \in Slots :
      /\ ~Running(q) /\ pc'[q] = "init_wait"
      /\ log'[q][Len(log'[q])] = [op |-> "initialize", res |-> "call"]
      /\ variant = "part_005" => msalInstance' = q /\ instState'[q] = "initializing"

\* C34: when initialize() fails, the stored client is left in its
\* uninitialized state (msalInstance null in part_005, isInitialized unchanged
\* in part_000) and the call ends with that error; the next call of
\* initializeMsal initializes anew, and an early return of initializeMsal
\* only ever hands out a client that was initialized successfully.
C34_FailedInitIsReset ==
  /\ [][FailureResets]_vars
  /\ [][StartsAnew]_vars
  /\ [](\A p \in Slots : variant \in ResetForms =>
          /\ pc[p] = "done" /\ outcome[p] = "InitError" /\ variant = "part_005" =>
               msalInstance = 0
          /\ pc[p] = "init_ret" =>
               /\ initOk >= 1
               /\ variant = "part_005" => instState[msalInstance] = "ready")

C34_Witness ==
  \E p \in Slots :
    /\ variant = "part_005" /\ pc[p] = "done" /\ outcome[p] = "InitError"
    /\ msalInstance = 0 /\ instState[p] = "failed"

----------------------------------------------------------------------------
\* The object URL after the delivery (part_002 lines 214-248; part_005 lines
\* 208-239; docs/taskpane.js lines 575-630).

\* C35: on every path of the delivery on which the URL was handed over (the
\* click or the window went through, or the link for the user was shown) the
\* object URL is revoked in the end: when no cleanup timer of a call is
\* pending any more, none of the URLs of that call is live.
C35_EveryUrlRevoked ==
  \A p \in Slots :
    variant \in Guarded /\ revokeTimer[p] = 0 /\ outcome[p] # "DeliveryError" =>
      ~LiveUrl(p)

\* C36: when the save could not be started by the script (the window was
\* blocked, or the click raised) and the link for the user was put into the
\* status area, the link is still there, its URL live, when
\* downloadEmailAsEml has ended, as long as the cleanup timer is pending.
C36_LinkStays ==
  \A p \in Slots :
    /\ variant \in {"part_002", "part_005"}
    /\ pc[p] = "done" /\ outcome[p] = "ok" /\ ~saved[p] /\ revokeTimer[p] # 0
    => link[p] = "status" /\ LiveUrl(p)

----------------------------------------------------------------------------
\* The delivery within one call (part_005 lines 242-325; part_001 lines
\* 84-138).

DeliveryOps == {"createObjectURL", "click", "open"}

\* The ways a call ends before it has a payload.
EarlyFailures ==
  {"InitError", "NotInitialized", "TypeError", "AuthError", "InvalidIdentifier",
   "InvalidCharacterError", "HttpError", "NetworkError", "FetchExhausted"}

\* C37: a call delivers at most once, and only when its fetcher has returned
\* a payload: a call that failed in the initialization, the token
\* acquisition, the identifier lookup or the fetching has created no object
\* URL and started no save.
C37_DeliverOnce ==
  \A p \in Slots : variant \in ReleaseForms =>
    /\ \A op \in DeliveryOps : TimesAsked(p, op) <= 1
    /\ (\E op \in DeliveryOps : Asked(p, op)) => payload[p] # "" /\ tok[p] # ""
    /\ outcome[p] \in EarlyFailures =>
         /\ \A op \in DeliveryOps : ~Asked(p, op)
         /\ payload[p] = ""

C37_Witness ==
  \E p \in Slots :
    /\ variant = "part_001" /\ pc[p] = "done" /\ outcome[p] = "ok"
    /\ payload[p] = "mime" /\ TimesAsked(p, "createObjectURL") = 1
    /\ TimesAsked(p, "click") = 1

----------------------------------------------------------------------------
\* The button after an attempt (docs/taskpane.js lines 632-666; part_005 lines
\* 296-325).

\* Call p was an attempt and is over.
Completed(p) == pc[p] = "done" /\ outcome[p] # "rejected"

\* docsB's attempt ended in the statements after the delivery's try block.
ClosingEnd(p) == variant = "docsB" /\ outcome[p] = "ok" /\ link[p] # "status"

\* C38, as stated: after every attempt, successful or failed, the button is
\* enabled and its click handler is downloadEmailAsEml.
C38_AsStated ==
  \A p \in Slots : variant \in ThreeStrategy /\ Completed(p) =>
    ~btnDisabled /\ btnOnclick = "download"

\* C38, amended: after every attempt the button is enabled; its click handler
\* is downloadEmailAsEml after a failed attempt, after a successful attempt of
\* part_005 and after docs/taskpane.js showed the link for the user; after an
\* attempt of docs/taskpane.js whose save was started the button is the
\* "Close Panel" button, whose handler replaces the page.
C38_EnabledAfterAttempt ==
  \A p \in Slots : variant \in ThreeStrategy /\ Completed(p) =>
    /\ ~btnDisabled
    /\ btnOnclick = IF ClosingEnd(p) THEN "close" ELSE "download"

C38_Witness ==
  \E p \in Slots :
    /\ variant = "docsB" /\ Completed(p) /\ outcome[p] = "ok" /\ saved[p]
    /\ ~btnDisabled /\ btnOnclick = "close"

----------------------------------------------------------------------------
\* The try/catch of downloadEmailAsEml (part_005 lines 242-325; part_004
\* lines 86-158).

\* The ways an attempt ends in the catch block.
Caught ==
  {"InitError", "NotInitialized", "TypeError", "AuthError", "InvalidIdentifier",
   "HttpError", "NetworkError", "FetchExhausted", "DeliveryError"}

\* Nothing call p waited for has failed on the way to its payload.
AllStepsWell(p) ==
  /\ ~Has(p, "initialize", "throw")
  /\ TokenReturned(p) # "" /\ tok[p] = TokenReturned(p)
  /\ payload[p] # ""
  /\ variant = "part_004" => Has(p, "req1", "ok") /\ Has(p, "blob1", "ok")
  /\ \E op \in DeliveryOps : Asked(p, op)

\* C39: downloadEmailAsEml never rejects: every attempt ends either after the
\* delivery, with the status showing success, or in the catch block, with the
\* status showing the error; the status shows success only for an attempt in
\* which initialization, token acquisition, identifier lookup, fetching and
\* delivery all went well.
C39_AlwaysCaught ==
  \A p \in Slots : variant \in CaughtForms /\ Completed(p) =>
    /\ outcome[p] \in Caught \cup {"ok"}
    /\ outcome[p] \in Caught =>
         /\ statusClass = "error"
         /\ outcome[p] # "DeliveryError" => payload[p] = ""
    /\ outcome[p] = "ok" => statusClass = "success" /\ AllStepsWell(p)

C39_Witness ==
  \E p \in Slots :
    /\ variant = "part_004" /\ Completed(p) /\ outcome[p] = "HttpError"
    /\ Has(p, "req1", "bad") /\ statusClass = "error"


\* C40: in the guarded revisions, at every suspension point of an attempt the
\* download button is disabled exactly when isDownloading is true, and
\* whenever no attempt is in progress the button is enabled.
C40_ButtonFollowsFlag ==
  variant \in Guarded =>
    /\ \A p \in Slots : Suspended(p) => (btnDisabled <=> isDownloading)
    /\ (\A p \in Slots : ~Suspended(p)) => ~btnDisabled

\* An attempt of a guarded revision that holds its token is suspended with
\* the button disabled and the flag set.
C40_Witness ==
  \E p \in Slots :
    /\ variant \in Guarded /\ Suspended(p) /\ tok[p] # ""
    /\ btnDisabled /\ isDownloading

====
